---------------------------- MODULE Spec2Model ----------------------------
(***************************************************************************)
(* Model of the result normalization and regression / failure              *)
(* classification scripts of Abies:                                        *)
(*   scripts/analyze_e2e_results.py   (E2E analyzer, SpecE2E)              *)
(*   scripts/compare-benchmark.py     (baseline comparison, delta policy)  *)
(*   scripts/compare-benchmarks.py    (same-job comparison, ratio policy)  *)
(*   scripts/convert-e2e-results.py   (conversion script, SpecConvert)     *)
(*   scripts/fix-benchmark-data.py    (chart-set merge, SpecFix)           *)
(*                                                                         *)
(* Numbers.  JSON numbers are modelled as integers and every derived       *)
(* value (median, mean, ratio, diff_percent) as an exact rational          *)
(* <<numerator, denominator>> in lowest terms with a positive denominator; *)
(* the rounding of IEEE doubles is outside the model.                      *)
(*                                                                         *)
(* Text.  A message or stack trace is a sequence of fragments: the literal *)
(* pieces the patterns are made of (in some letter case), runs of digits,  *)
(* single spaces and punctuation marks, newlines, and other words.         *)
(***************************************************************************)
EXTENDS Integers, Sequences, FiniteSets, TLC

VARIABLES
    script,         \* which script this process runs
    pc,             \* position of the running script in its main()
    exit_code,      \* the process exit status, NoExit while running
    trx,            \* analyzer: the TRX file given on the command line
    strict_mode,    \* analyzer: '--strict' in sys.argv
    results,        \* analyzer: list of TestResult; comparison: dict of results
    counts,         \* analyzer: the counts dict of parse_trx_file
    file,           \* normalizer: the result file being parsed (stem, document)
    parsed,         \* normalizer: what parse_result_file returned
    traceback,      \* the uncaught exception that ended the process, or None
    stdout,         \* comparison scripts: the rows of the tables printed
    args,           \* comparison scripts: the parsed command line
    result_files,   \* compare-benchmark: the result files found, in sorted order
    documents,      \* compare-benchmark: the documents read from them so far
    baseline_file,  \* compare-benchmark: the stored baseline file
    baseline,       \* compare-benchmark: the mapping load_baseline returned
    comparisons,    \* compare-benchmark: the list compare_results returned
    baseline_throughput,    \* compare-benchmarks: the four loaded metric dicts
    pr_throughput,
    baseline_allocations,
    pr_allocations,
    throughput_comparisons, \* compare-benchmarks: the lists of compare_metrics
    allocation_comparisons,
    cpu_data,       \* convert-e2e-results: the list written to --output
    memory_data,    \* convert-e2e-results: the list written to --output-memory
    data,           \* fix-benchmark-data: the entries of the input data.js
    entries,        \* fix-benchmark-data: the entries dict being merged
    fixed           \* fix-benchmark-data: the entries of the output file

e2e_vars == <<trx, strict_mode, counts>>
norm_vars == <<file, parsed>>
delta_vars == <<result_files, documents, baseline_file, baseline, comparisons>>
metric_vars == <<baseline_throughput, pr_throughput,
                 baseline_allocations, pr_allocations>>
ratio_vars == <<metric_vars, throughput_comparisons, allocation_comparisons>>
cmp_vars == <<traceback, stdout, args, delta_vars, ratio_vars>>
convert_vars == <<cpu_data, memory_data>>
fix_vars == <<data, entries, fixed>>
tool_vars == <<convert_vars, fix_vars>>

vars == <<script, pc, exit_code, results, e2e_vars, norm_vars, cmp_vars,
          tool_vars>>

NoExit == "running"
None == "None"

(***************************************************************************)
(* Bounds of the model.                                                    *)
(***************************************************************************)
MaxResults == 2         \* UnitTestResult elements in one TRX file
MaxLen == 4             \* samples in a flat values array
MaxSample == 3          \* the samples are 1..MaxSample
MaxKeyedLen == 1        \* samples in the values array under total / DEFAULT
MaxBenchmarks == 2      \* entries in one merged metrics file
MaxEntries == 2         \* entries in one chart-set list of data.js

(***************************************************************************)
(* The variables of the scripts that are not running.                      *)
(***************************************************************************)
NoCounts ==
    [total |-> 0, passed |-> 0, failed |-> 0,
     timeout |-> 0, assertion |-> 0, unknown |-> 0]

IdleE2E == trx = None /\ strict_mode = FALSE /\ counts = NoCounts

IdleNorm == file = None /\ parsed = None

IdleDelta ==
    /\ result_files = << >>
    /\ documents = << >>
    /\ baseline_file = None
    /\ baseline = [n \in {} |-> 0]
    /\ comparisons = << >>

IdleRatio ==
    /\ baseline_throughput = [n \in {} |-> 0]
    /\ pr_throughput = [n \in {} |-> 0]
    /\ baseline_allocations = [n \in {} |-> 0]
    /\ pr_allocations = [n \in {} |-> 0]
    /\ throughput_comparisons = << >>
    /\ allocation_comparisons = << >>

IdleCmp ==
    traceback = None /\ stdout = << >> /\ args = None /\ IdleDelta /\ IdleRatio

\* an output file that has not been written
NotWritten == [written |-> FALSE, rows |-> << >>]

IdleConvert == cpu_data = NotWritten /\ memory_data = NotWritten

NoData == [kind |-> "none", entries |-> [n \in {} |-> << >>]]

IdleFix ==
    /\ data = NoData
    /\ entries = [n \in {} |-> << >>]
    /\ fixed = [written |-> FALSE, entries |-> [n \in {} |-> << >>]]

IdleTools == IdleConvert /\ IdleFix

(***************************************************************************)
(* Generic helpers.                                                        *)
(***************************************************************************)
SeqsUpTo(S, n) == UNION {[1..k -> S] : k \in 0..n}

(***************************************************************************)
(* analyze_e2e_results.py: text and regular expressions.                   *)
(***************************************************************************)
NL == "\n"

\* str.lower() of a fragment, as re.IGNORECASE compares them
Fold(f) ==
    CASE f \in {"Timeout", "TIMEOUT"} -> "timeout"
      [] f = "TimeoutException" -> "timeoutexception"
      [] f = "Expected" -> "expected"
      [] f = "Assert" -> "assert"
      [] f = "AssertionException" -> "assertionexception"
      [] f = "Page" -> "page"
      [] f = "Locator" -> "locator"
      [] f = "ToBeVisible" -> "tobevisible"
      [] f = "ToHaveText" -> "tohavetext"
      [] f = "ToContain" -> "tocontain"
      [] f = "Waiting" -> "waiting"
      [] OTHER -> f

\* the pattern literals that occur inside a (folded) fragment
Inside(f) ==
    CASE f = "timeoutexception" -> {"timeoutexception", "timeout"}
      [] f = "locator" -> {"locator", "to"}
      [] f = "tobevisible" -> {"tobevisible", "to"}
      [] f = "tohavetext" -> {"tohavetext", "to"}
      [] f = "tocontain" -> {"tocontain", "to"}
      [] f = "items" -> {"ms"}
      [] OTHER -> {f}

DigitRuns == {"30000", "5000"}

\* \d+
D == "\\d+"

\* An atom of a pattern against one fragment.  alone: the atom is a whole
\* group (between two .* or pattern ends), so it may match inside a fragment.
AtomMatches(atom, f, alone) ==
    IF atom = D THEN f \in DigitRuns
    ELSE IF alone THEN Fold(atom) \in Inside(Fold(f))
    ELSE Fold(atom) = Fold(f)

\* the atoms of group g match the fragments text[i .. i+Len(g)-1]
GroupAt(g, text, i) ==
    /\ i + Len(g) - 1 <= Len(text)
    /\ \A k \in 1..Len(g) : AtomMatches(g[k], text[i + k - 1], Len(g) = 1)

\* '.' does not match a newline (no re.DOTALL): .* spans text[a .. b]
NoNewline(text, a, b) == \A k \in a..b : text[k] # NL

\* groups p[n..] match somewhere in text, the first of them at or after
\* position from, with only non-newline fragments skipped when n > 1
RECURSIVE MatchFrom(_, _, _, _)
MatchFrom(p, n, text, from) ==
    IF n > Len(p) THEN TRUE
    ELSE \E i \in from..Len(text) :
            /\ GroupAt(p[n], text, i)
            /\ (n = 1 \/ NoNewline(text, from, i - 1))
            /\ MatchFrom(p, n + 1, text, i + Len(p[n]))

\* re.search(pattern, text, re.IGNORECASE) is not None
re_search(p, text) == MatchFrom(p, 1, text, 1)

\* A pattern is a sequence of groups separated by .* ; a group is a
\* sequence of adjacent atoms.
TIMEOUT_PATTERNS == <<
    << <<"TimeoutException">> >>,                              \* TimeoutException
    << <<"Timeout">>, <<"exceeded">> >>,                       \* Timeout.*exceeded
    << <<"timeout">>, <<"ms">> >>,                             \* timeout.*ms
    << <<"waiting", " ", "for">>, <<"timed", " ", "out">> >>,  \* waiting for.*timed out
    << <<"Timeout", " ", D, "ms", " ", "exceeded">> >>,        \* Timeout \d+ms exceeded
    << <<"Page", ".">>, <<"(", ")">>, <<"Timeout">> >>,        \* Page\..*\(\).*Timeout
    << <<"locator">>, <<"timeout">> >>                         \* locator.*timeout
  >>

ASSERTION_PATTERNS == <<
    << <<"Expected">>, <<"but">>, <<"got">> >>,                \* Expected.*but.*got
    << <<"Expected">>, <<"to">>, <<"but">> >>,                 \* Expected.*to.*but
    << <<"Assert", ".">> >>,                                   \* Assert\.
    << <<"AssertionException">> >>,                            \* AssertionException
    << <<"ToBeVisible">>, <<"failed">> >>,                     \* ToBeVisible.*failed
    << <<"ToHaveText">>, <<"failed">> >>,                      \* ToHaveText.*failed
    << <<"ToContain">>, <<"failed">> >>,                       \* ToContain.*failed
    << <<"Expected", " ", "true", " ", "but", " ", "was", " ", "false">> >>,
    << <<"Expected", " ", "false", " ", "but", " ", "was", " ", "true">> >>
  >>

AnyMatch(patterns, text) ==
    \E k \in 1..Len(patterns) : re_search(patterns[k], text)

\* f"{self.message} {self.stack_trace}"
combined_text(message, stack_trace) == message \o <<" ">> \o stack_trace

\* mutant: the assertion patterns are tested before the timeout patterns
categorize_assertion_first(outcome, message, stack_trace) ==
    IF outcome = "Passed" THEN "passed"
    ELSE IF AnyMatch(ASSERTION_PATTERNS, combined_text(message, stack_trace))
         THEN "assertion"
    ELSE IF AnyMatch(TIMEOUT_PATTERNS, combined_text(message, stack_trace))
         THEN "timeout"
    ELSE "unknown"

\* mutant: an unmatched failure is folded into assertion
categorize_default_assertion(outcome, message, stack_trace) ==
    IF outcome = "Passed" THEN "passed"
    ELSE IF AnyMatch(TIMEOUT_PATTERNS, combined_text(message, stack_trace))
         THEN "timeout"
    ELSE "assertion"

\* mutant: a failure matching no pattern is left in the category of passed
\* tests
categorize_unmatched_passed(outcome, message, stack_trace) ==
    IF outcome = "Passed" THEN "passed"
    ELSE IF AnyMatch(TIMEOUT_PATTERNS, combined_text(message, stack_trace))
         THEN "timeout"
    ELSE IF AnyMatch(ASSERTION_PATTERNS, combined_text(message, stack_trace))
         THEN "assertion"
    ELSE "passed"

\* TestResult._categorize_failure
categorize_failure(outcome, message, stack_trace) ==
    IF outcome = "Passed" THEN "passed"
    ELSE IF AnyMatch(TIMEOUT_PATTERNS, combined_text(message, stack_trace))
         THEN "timeout"
    ELSE IF AnyMatch(ASSERTION_PATTERNS, combined_text(message, stack_trace))
         THEN "assertion"
    ELSE "unknown"

(***************************************************************************)
(* The inputs of the analyzer: the UnitTestResult elements of a TRX file.  *)
(***************************************************************************)
Outcomes == {"Passed", "Failed", "Error"}

M_none == << >>
M_timeout == <<"Timeout", " ", "30000", "ms", " ", "exceeded">>
M_assert == <<"Expected", " ", "true", " ", "but", " ", "was", " ", "false">>
M_wait == <<"Timeout", " ", "30000", "ms", " ", "exceeded", NL,
            "Expected", " ", "Locator", " ", "to", " ", "be", " ", "visible",
            " ", "but", " ", "got", " ", "hidden">>
M_split == <<"TIMEOUT", NL, "exceeded">>
M_other == <<"Connection", " ", "refused">>

Messages == {M_none, M_timeout, M_assert, M_wait, M_split, M_other}

S_none == << >>
S_assert == <<"at", " ", "NUnit", ".", "Framework", ".", "Assert", ".",
              "That", "(", ")">>
StackTraces == {S_none, S_assert}

TestNames == {"HomePageLoads"}

\* one vs:UnitTestResult element: its attributes and the texts of its
\* Output/ErrorInfo/Message and Output/ErrorInfo/StackTrace (empty if absent)
UnitTestResults ==
    [testName : TestNames, outcome : Outcomes,
     message : Messages, stack_trace : StackTraces]

\* the category of every element of the input space (TestResult.__init__
\* stores it in failure_type)
failure_types ==
    {<<e, categorize_failure(e.outcome, e.message, e.stack_trace)>> :
        e \in UnitTestResults}

failure_type(e) == (CHOOSE p \in failure_types : p[1] = e)[2]

\* TestResult.__init__
TestResult(e) ==
    [name |-> e.testName, outcome |-> e.outcome, message |-> e.message,
     stack_trace |-> e.stack_trace, failure_type |-> failure_type(e)]

CountOutcome(rs, o) == Cardinality({i \in 1..Len(rs) : rs[i].outcome = o})
CountType(rs, t) == Cardinality({i \in 1..Len(rs) : rs[i].failure_type = t})

\* the counts dict of parse_trx_file
count_outcomes(rs) ==
    [total |-> Len(rs),
     passed |-> CountOutcome(rs, "Passed"),
     failed |-> CountOutcome(rs, "Failed"),
     timeout |-> CountType(rs, "timeout"),
     assertion |-> CountType(rs, "assertion"),
     unknown |-> CountType(rs, "unknown")]

\* the TRX file named on the command line
TrxFiles ==
    {[kind |-> "missing", elems |-> << >>],
     [kind |-> "malformed", elems |-> << >>]}
    \cup {[kind |-> "xml", elems |-> es] : es \in SeqsUpTo(UnitTestResults, MaxResults)}

(***************************************************************************)
(* analyze_e2e_results.py: main.                                           *)
(***************************************************************************)
\* main up to and including parse_trx_file: the file is missing or
\* ET.parse raises -> sys.exit(2); else results and counts are built
ParseTrx ==
    /\ script = "analyze_e2e_results"
    /\ pc = "start"
    /\ IF trx.kind # "xml"
       THEN /\ pc' = "exit"
            /\ exit_code' = 2
            /\ UNCHANGED <<results, counts>>
       ELSE /\ pc' = "parsed"
            /\ results' = [i \in 1..Len(trx.elems) |-> TestResult(trx.elems[i])]
            /\ counts' = count_outcomes(results')
            /\ UNCHANGED exit_code
    /\ UNCHANGED <<script, trx, strict_mode, norm_vars, tool_vars, cmp_vars>>

\* the decision logic of main: the exit code for counts c
decision(c, strict) ==
    IF c.failed = 0 THEN 0
    ELSE IF c.assertion > 0 THEN 1
    ELSE IF c.unknown > 0 THEN 1
    ELSE IF c.timeout > 0 THEN (IF strict THEN 1 ELSE 0)
    ELSE 1

\* main after parse_trx_file: print_summary, then the decision
Decide ==
    /\ script = "analyze_e2e_results"
    /\ pc = "parsed"
    /\ pc' = "exit"
    /\ exit_code' = decision(counts, strict_mode)
    /\ UNCHANGED <<script, trx, strict_mode, results, counts, norm_vars, tool_vars,
                   cmp_vars>>

InitE2E ==
    /\ script = "analyze_e2e_results"
    /\ pc = "start"
    /\ exit_code = NoExit
    /\ trx \in TrxFiles
    /\ strict_mode \in BOOLEAN
    /\ results = << >>
    /\ counts = NoCounts
    /\ IdleNorm
    /\ IdleCmp
    /\ IdleTools

NextE2E == ParseTrx \/ Decide

SpecE2E == InitE2E /\ [][NextE2E]_vars

(***************************************************************************)
(* Claims about the E2E analyzer (SpecE2E).                                *)
(***************************************************************************)
Analyzed == script = "analyze_e2e_results" /\ pc = "exit" /\ trx.kind = "xml"

HasType(t) == \E i \in 1..Len(results) : results[i].failure_type = t

\* which texts of the input space match a timeout / an assertion pattern
TimeoutTexts ==
    UNION {IF AnyMatch(TIMEOUT_PATTERNS, combined_text(t[1], t[2]))
           THEN {t} ELSE {} : t \in Messages \X StackTraces}

AssertionTexts ==
    UNION {IF AnyMatch(ASSERTION_PATTERNS, combined_text(t[1], t[2]))
           THEN {t} ELSE {} : t \in Messages \X StackTraces}

MatchesTimeout(r) == <<r.message, r.stack_trace>> \in TimeoutTexts

MatchesAssertion(r) == <<r.message, r.stack_trace>> \in AssertionTexts

\* C1: whenever a parsed result has category assertion the run ends with
\* exit code 1, whatever the strict flag, the other results and the
\* (non-Passed) outcome strings are.
C1_AssertionAlwaysFails ==
    (Analyzed /\ HasType("assertion")) => exit_code = 1

\* C2: whenever a parsed result has category unknown the run ends with exit
\* code 1; a run never ends with exit code 0 while a result of category
\* unknown or assertion is present.
C2_UnknownAlwaysFails ==
    /\ (Analyzed /\ HasType("unknown")) => exit_code = 1
    /\ (Analyzed /\ exit_code = 0) =>
            ~(HasType("unknown") \/ HasType("assertion"))

\* C3: with no assertion and no unknown result and at least one timeout
\* result, the run ends with exit code 0 without the strict flag and with
\* exit code 1 with it.
C3_TimeoutOnlyFollowsStrict ==
    (Analyzed /\ ~HasType("assertion") /\ ~HasType("unknown")
              /\ HasType("timeout"))
        => exit_code = (IF strict_mode THEN 1 ELSE 0)

\* C4: a result whose outcome is not Passed and whose combined text matches
\* a timeout pattern has category timeout, also when the text matches an
\* assertion pattern; assertion is given only when no timeout pattern matches.
C4_TimeoutPrecedence ==
    \A i \in 1..Len(results) :
        results[i].outcome # "Passed" =>
            /\ MatchesTimeout(results[i]) => results[i].failure_type = "timeout"
            /\ results[i].failure_type = "assertion" =>
                    (~MatchesTimeout(results[i]) /\ MatchesAssertion(results[i]))

\* C4 witness: a non-Passed result matching a timeout and an assertion
\* pattern has been classified as timeout.
C4_Witness ==
    \E i \in 1..Len(results) :
        /\ results[i].outcome # "Passed"
        /\ MatchesTimeout(results[i])
        /\ MatchesAssertion(results[i])
        /\ results[i].failure_type = "timeout"

\* C5: a result whose outcome is not Passed and whose combined text matches
\* no timeout pattern and no assertion pattern has category unknown (never
\* assertion, never passed).
C5_UnmatchedIsUnknown ==
    \A i \in 1..Len(results) :
        (/\ results[i].outcome # "Passed"
         /\ ~MatchesTimeout(results[i])
         /\ ~MatchesAssertion(results[i]))
            => results[i].failure_type = "unknown"

\* C5 witness: a non-Passed result matching no pattern has been classified.
C5_Witness ==
    \E i \in 1..Len(results) :
        /\ results[i].outcome \notin {"Passed", "Failed"}
        /\ ~MatchesTimeout(results[i])
        /\ ~MatchesAssertion(results[i])
        /\ Len(results[i].message) > 0
        /\ results[i].failure_type = "unknown"

(***************************************************************************)
(* Exact arithmetic: a number is a rational <<n, d>>, d > 0, gcd(n, d) = 1 *)
(***************************************************************************)
Abs(x) == IF x < 0 THEN -x ELSE x

RECURSIVE GCD(_, _)
GCD(a, b) == IF b = 0 THEN a ELSE GCD(b, a % b)

\* n / d in lowest terms (d # 0)
Rat(n, d) ==
    LET g == GCD(Abs(n), Abs(d))
        sgn == IF d < 0 THEN -1 ELSE 1
    IN  <<sgn * (n \div g), sgn * (d \div g)>>

Num(n) == <<n, 1>>
RAdd(a, b) == Rat(a[1] * b[2] + b[1] * a[2], a[2] * b[2])
RSub(a, b) == Rat(a[1] * b[2] - b[1] * a[2], a[2] * b[2])
RMul(a, b) == Rat(a[1] * b[1], a[2] * b[2])
RDiv(a, b) == Rat(a[1] * b[2], a[2] * b[1])
RNeg(a) == <<-a[1], a[2]>>
RLess(a, b) == a[1] * b[2] < b[1] * a[2]
RLeq(a, b) == a[1] * b[2] <= b[1] * a[2]
RIsZero(a) == a[1] = 0

\* a standard deviation: the root-th root of a rational (root 1: the number
\* itself, root 2: its square root)
Exactly(a) == [root |-> 1, of |-> a]
Sqrt(a) == IF RIsZero(a) THEN Exactly(a) ELSE [root |-> 2, of |-> a]

(***************************************************************************)
(* Statistics of a sequence of integer samples.                            *)
(***************************************************************************)
\* sorted(values)
sorted(values) == SortSeq(values, LAMBDA a, b : a < b)

RECURSIVE SumSeq(_)
SumSeq(xs) == IF xs = << >> THEN 0 ELSE Head(xs) + SumSeq(Tail(xs))

\* sorted(values)[len(values) // 2]   (convert-e2e-results.py)
index_median(values) == Num(sorted(values)[(Len(values) \div 2) + 1])

\* statistics.median(values), values non-empty: the middle element for an
\* odd count, the mean of the two middle elements for an even count
statistics_median(values) ==
    LET n == Len(values)
        srt == sorted(values)
    IN  IF n % 2 = 1 THEN Num(srt[(n \div 2) + 1])
        ELSE Rat(srt[n \div 2] + srt[(n \div 2) + 1], 2)

\* statistics.mean(values) and sum(values) / len(values), values non-empty
statistics_mean(values) == Rat(SumSeq(values), Len(values))

\* statistics.stdev(values), len(values) > 1: the square root of the sample
\* variance sum((x - mean)^2) / (n - 1) = (n * sum(x^2) - sum(x)^2) / (n (n-1))
statistics_stdev(values) ==
    LET n == Len(values)
        sq == SumSeq([i \in 1..n |-> values[i] * values[i]])
        sm == SumSeq(values)
    IN  Sqrt(Rat(n * sq - sm * sm, n * (n - 1)))

(***************************************************************************)
(* Result files: the stem of the file name (split at "_") and the parsed   *)
(* JSON document.                                                          *)
(***************************************************************************)
Absent == [kind |-> "absent"]

\* the value under "total" / "DEFAULT": a list of samples, a stats object
\* (has: which of its keys are present), or another JSON value
ListEntry(vs) == [kind |-> "list", values |-> vs]
StatsEntry(has, median, mean, stddev, vs) ==
    [kind |-> "stats", has |-> has, median |-> median, mean |-> mean,
     stddev |-> stddev, values |-> vs]
OtherEntry == [kind |-> "other"]

Malformed == [shape |-> "malformed"]                \* not JSON
NoValues == [shape |-> "novalues"]                  \* an object without "values"
Scalar(truthy) == [shape |-> "scalar", truthy |-> truthy]  \* "values": 5, "values": 0
Flat(vs) == [shape |-> "flat", values |-> vs]       \* "values": [...]
Keyed(total, default) ==          \* "values": {"script": ..., "paint": ..., ...}
    [shape |-> "keyed", total |-> total, DEFAULT |-> default]
EmptyObject == [shape |-> "empty"]                  \* "values": {}

\* file_path.stem.split("_", 1)[1] if "_" in file_path.stem else stem
\* and "_".join(stem.split("_")[1:]): the parts after the first underscore
benchmark_name(stem) == IF Len(stem) >= 2 THEN Tail(stem) ELSE stem

\* return None, silently or after print("Warning: ...", file=sys.stderr)
NoneResult == [kind |-> "None", warning |-> None]
Warned(warning) == [kind |-> "None", warning |-> warning]
Raised(exc) == [kind |-> "raise", exc |-> exc]

BenchmarkResult(name, median, mean, std_dev, values) ==
    [kind |-> "result", name |-> name, median |-> median, mean |-> mean,
     std_dev |-> std_dev, values |-> values]

(***************************************************************************)
(* compare-benchmark.py: parse_result_file.                                *)
(***************************************************************************)
\* mutant: the statistics are recomputed from a non-empty values array,
\* whatever the object supplies
entry_result_recompute(name, e) ==
    LET values == IF e.kind = "list" \/ (e.kind = "stats" /\ e.has.values)
                  THEN e.values ELSE << >>
        supplied(field) == e.kind = "stats" /\ e.has[field] /\ values = << >>
    IN  BenchmarkResult(name,
            IF supplied("median") THEN e.median
            ELSE IF values # << >> THEN statistics_median(values) ELSE Num(0),
            IF supplied("mean") THEN e.mean
            ELSE IF values # << >> THEN statistics_mean(values) ELSE Num(0),
            IF supplied("stddev") THEN Exactly(e.stddev)
            ELSE IF Len(values) > 1 THEN statistics_stdev(values)
                 ELSE Exactly(Num(0)),
            values)

\* lines 82-92 and 96-105: the statistics of the entry under total / DEFAULT
entry_result(name, e) ==
    IF e.kind = "stats"
    THEN LET values == IF e.has.values THEN e.values ELSE << >>
         IN  BenchmarkResult(name,
                IF e.has.median THEN e.median
                ELSE IF values # << >> THEN statistics_median(values) ELSE Num(0),
                IF e.has.mean THEN e.mean
                ELSE IF values # << >> THEN statistics_mean(values) ELSE Num(0),
                IF e.has.stddev THEN Exactly(e.stddev)
                ELSE IF Len(values) > 1 THEN statistics_stdev(values)
                     ELSE Exactly(Num(0)),
                values)
    ELSE LET values == IF e.kind = "list" THEN e.values ELSE << >>
         IN  BenchmarkResult(name,
                IF values # << >> THEN statistics_median(values) ELSE Num(0),
                IF values # << >> THEN statistics_mean(values) ELSE Num(0),
                IF Len(values) > 1 THEN statistics_stdev(values)
                ELSE Exactly(Num(0)),
                values)

\* lines 110-114: "values" is directly an array; statistics.median and
\* statistics.mean raise StatisticsError on an empty one, which the except
\* clause of line 127 does not catch
flat_result(name, values) ==
    IF values = << >> THEN Raised("StatisticsError")
    ELSE BenchmarkResult(name, statistics_median(values), statistics_mean(values),
            IF Len(values) > 1 THEN statistics_stdev(values)
            ELSE Exactly(Num(0)),
            values)

parse_result_file(stem, doc) ==
    CASE doc.shape = "malformed" -> Warned("Could not parse")  \* JSONDecodeError
      [] doc.shape = "novalues" -> NoneResult       \* falls through to return None
      [] doc.shape = "empty" -> Warned("Unknown values format")
      [] doc.shape = "keyed" ->
            IF doc.total.kind # "absent"
            THEN entry_result(benchmark_name(stem), doc.total)
            ELSE IF doc.DEFAULT.kind # "absent"
            THEN entry_result(benchmark_name(stem), doc.DEFAULT)
            ELSE Warned("Unknown values format")
      [] doc.shape = "flat" -> flat_result(benchmark_name(stem), doc.values)
      [] doc.shape = "scalar" -> Raised("TypeError") \* statistics.median(5)

(***************************************************************************)
(* convert-e2e-results.py: parse_result_file (no std_dev in its records).  *)
(***************************************************************************)
ConvertedResult(name, median, mean, values) ==
    [kind |-> "result", name |-> name, median |-> median, mean |-> mean,
     values |-> values]

\* lines 46-53 and 57-64
convert_entry_result(name, e) ==
    IF e.kind = "stats"
    THEN LET values == IF e.has.values THEN e.values ELSE << >>
         IN  ConvertedResult(name,
                IF e.has.median THEN e.median
                ELSE IF values # << >> THEN index_median(values) ELSE Num(0),
                IF e.has.mean THEN e.mean
                ELSE IF values # << >> THEN statistics_mean(values) ELSE Num(0),
                values)
    ELSE LET values == IF e.kind = "list" THEN e.values ELSE << >>
         IN  ConvertedResult(name,
                IF values # << >> THEN index_median(values) ELSE Num(0),
                IF values # << >> THEN statistics_mean(values) ELSE Num(0),
                values)

\* lines 69-72 (values is non-empty: line 37 returned None otherwise)
convert_flat_result(name, values) ==
    ConvertedResult(name, index_median(values), statistics_mean(values), values)

convert_parse_result_file(stem, doc) ==
    CASE doc.shape = "malformed" -> Warned("Could not parse")
      [] doc.shape = "novalues" -> NoneResult
      [] doc.shape = "empty" -> NoneResult          \* not values_obj: {} is falsy
      [] doc.shape = "keyed" ->
            IF doc.total.kind # "absent"
            THEN convert_entry_result(benchmark_name(stem), doc.total)
            ELSE IF doc.DEFAULT.kind # "absent"
            THEN convert_entry_result(benchmark_name(stem), doc.DEFAULT)
            ELSE Warned("Unknown values format")
      [] doc.shape = "flat" ->
            IF doc.values = << >> THEN NoneResult   \* not values_obj
            ELSE convert_flat_result(benchmark_name(stem), doc.values)
      [] doc.shape = "scalar" ->
            IF doc.truthy THEN Raised("TypeError")  \* sorted(5)
            ELSE NoneResult                         \* not values_obj

(***************************************************************************)
(* The normalizer on one result file (SpecNorm): the file is drawn from    *)
(* the documents below and parsed by one of the two scripts.               *)
(***************************************************************************)
Samples == 1..MaxSample

Supplied == 7           \* a statistic the producer wrote into the document

Presence == [median : BOOLEAN, mean : BOOLEAN, stddev : BOOLEAN, values : BOOLEAN]

Entries ==
    {ListEntry(vs) : vs \in SeqsUpTo(Samples, MaxKeyedLen)}
    \cup {OtherEntry}
    \cup {StatsEntry(has, Num(Supplied), Num(Supplied), Num(Supplied), vs) :
            has \in Presence, vs \in SeqsUpTo(Samples, MaxKeyedLen)}

FlatDocuments == {Flat(vs) : vs \in SeqsUpTo(Samples, MaxLen)}

KeyedDocuments ==
    {Keyed(t, d) : t \in Entries \cup {Absent}, d \in Entries \cup {Absent}}

Documents ==
    {Malformed, NoValues, EmptyObject, Scalar(TRUE), Scalar(FALSE)}
    \cup FlatDocuments \cup KeyedDocuments

\* file stems, split at "_": abies-keyed_01_run1k.json, abies.json
Stems == {<<"abies-keyed", "01", "run1k">>, <<"abies">>}

NormScripts == {"compare-benchmark", "convert-e2e-results"}

InitNorm ==
    /\ script \in NormScripts
    /\ pc = "parse"
    /\ exit_code = NoExit
    /\ file \in [stem : Stems, doc : Documents]
    /\ parsed = None
    /\ results = << >>
    /\ IdleE2E
    /\ IdleCmp
    /\ IdleTools

\* compare-benchmark.py: result = parse_result_file(file_path)
ParseResultFile ==
    /\ script = "compare-benchmark"
    /\ pc = "parse"
    /\ parsed' = parse_result_file(file.stem, file.doc)
    /\ pc' = "parsed"
    /\ UNCHANGED <<script, exit_code, file, results, e2e_vars, cmp_vars,
                   tool_vars>>

\* convert-e2e-results.py: result = parse_result_file(file_path)
ConvertParseResultFile ==
    /\ script = "convert-e2e-results"
    /\ pc = "parse"
    /\ parsed' = convert_parse_result_file(file.stem, file.doc)
    /\ pc' = "parsed"
    /\ UNCHANGED <<script, exit_code, file, results, e2e_vars, cmp_vars,
                   tool_vars>>

NextNorm == ParseResultFile \/ ConvertParseResultFile

SpecNorm == InitNorm /\ [][NextNorm]_vars

(***************************************************************************)
(* Claims about the normalizer (SpecNorm).                                 *)
(***************************************************************************)
\* the record of a flat-array document has been produced
FlatParsed ==
    /\ script \in NormScripts
    /\ pc = "parsed"
    /\ file.doc.shape = "flat"
    /\ file.doc.values # << >>

\* the 0-based index n // 2 of the ascending samples, found by counting:
\* the value v with at most n // 2 samples below it and more than n // 2
\* samples at or below it
AtIndexHalf(values, v) ==
    LET n == Len(values)
        below == Cardinality({i \in 1..n : values[i] < v})
        upto == Cardinality({i \in 1..n : values[i] <= v})
    IN  below <= n \div 2 /\ n \div 2 < upto

\* C10: for every non-empty flat-array document, the median of the record
\* produced by parse_result_file (of the baseline comparison script and of
\* the conversion script) is the element at index n // 2 of the sorted
\* samples, never an interpolated median.
C10_FlatMedianIsIndexHalf ==
    FlatParsed =>
        /\ parsed.kind = "result"
        /\ parsed.median[2] = 1
        /\ AtIndexHalf(file.doc.values, parsed.median[1])

\* C10 restricted to the conversion script, where it holds
C10_ConvertFlatMedianIsIndexHalf ==
    (FlatParsed /\ script = "convert-e2e-results") =>
        /\ parsed.kind = "result"
        /\ parsed.median[2] = 1
        /\ AtIndexHalf(file.doc.values, parsed.median[1])

\* the entry under the chosen key of a keyed document: "total" when the
\* document has it, else "DEFAULT"
ChosenEntry(doc) == IF doc.total.kind # "absent" THEN doc.total ELSE doc.DEFAULT

\* a keyed document whose chosen entry is a statistics object was parsed
StatsParsed ==
    /\ script \in NormScripts
    /\ pc = "parsed"
    /\ file.doc.shape = "keyed"
    /\ ChosenEntry(file.doc).kind = "stats"

\* the raw values array beneath a statistics object ([] when it has none)
RawValues(e) == IF e.has.values THEN e.values ELSE << >>

\* x is a number a statistic of the samples vs can be: 0 for no samples,
\* else a value between the least and the greatest sample
WithinSamples(x, vs) ==
    IF vs = << >> THEN x = Num(0)
    ELSE /\ \E i \in 1..Len(vs) : RLeq(Num(vs[i]), x)
         /\ \E i \in 1..Len(vs) : RLeq(x, Num(vs[i]))

RecognizedShape(doc) ==
    \/ doc.shape = "flat"
    \/ doc.shape = "keyed" /\ ChosenEntry(doc).kind \in {"stats", "list"}

\* the sample sequence of a document of a recognized shape
SampleSequence(doc) ==
    IF doc.shape = "flat" THEN doc.values
    ELSE IF ChosenEntry(doc).kind = "list" THEN ChosenEntry(doc).values
    ELSE RawValues(ChosenEntry(doc))

\* the document supplies the field itself (a statistics object having it)
Supplies(doc, field) ==
    /\ doc.shape = "keyed"
    /\ ChosenEntry(doc).kind = "stats"
    /\ ChosenEntry(doc).has[field]

RecognizedParsed ==
    /\ script \in NormScripts
    /\ pc = "parsed"
    /\ RecognizedShape(file.doc)

\* what the claim states of a parsed document of a recognized shape
EmptyAndSingleDefaults ==
    /\ parsed.kind # "raise"
    /\ SampleSequence(file.doc) = << >> =>
            /\ parsed.kind = "result"
            /\ ~Supplies(file.doc, "median") => parsed.median = Num(0)
            /\ ~Supplies(file.doc, "mean") => parsed.mean = Num(0)
    /\ (/\ Len(SampleSequence(file.doc)) = 1
        /\ script = "compare-benchmark"
        /\ ~Supplies(file.doc, "stddev"))
            => (parsed.kind = "result" /\ parsed.std_dev = Exactly(Num(0)))

\* C12: for every recognized document shape (flat array, total key, DEFAULT
\* key, the key's value an object or a list) with an empty sample sequence
\* the normalizer does not raise and the median and mean of the record are
\* 0; for a sample sequence of one element the standard deviation is 0.
C12_EmptyAndSingleSample ==
    RecognizedParsed => EmptyAndSingleDefaults

\* C12 restricted to the documents with a total / DEFAULT key, and to the
\* non-empty flat arrays, where it holds in both scripts
C12_KeyedEmptyAndSingleSample ==
    (RecognizedParsed /\ (file.doc.shape = "keyed" \/ file.doc.values # << >>))
        => EmptyAndSingleDefaults

(***************************************************************************)
(* compare-benchmark.py: the baseline store and the delta-percent          *)
(* comparator.                                                             *)
(***************************************************************************)
EmptyDict == [n \in {} |-> 0]

\* mutant: the results are collected in a list, one entry per file
dict_append(d, rec) == Append(d, rec)

\* mutant: a record is stored only when its name has none yet, so the first
\* file of a name wins
dict_setdefault(d, rec) ==
    IF \E i \in 1..Len(d) : d[i].name = rec.name THEN d ELSE Append(d, rec)

\* results[result.name] = result on an insertion-ordered dict, kept as the
\* sequence of its values: an existing key keeps its position
dict_set(d, rec) ==
    IF \E i \in 1..Len(d) : d[i].name = rec.name
    THEN [i \in 1..Len(d) |-> IF d[i].name = rec.name THEN rec ELSE d[i]]
    ELSE Append(d, rec)

\* the text of a JSON number, one character per element
Digits == <<"0", "1", "2", "3", "4", "5", "6", "7", "8", "9">>

DigitValue(c) == CHOOSE v \in 0..9 : Digits[v + 1] = c

\* mutant: the digits are emitted least significant first
RECURSIVE decimal_reversed(_)
decimal_reversed(n) ==
    IF n < 10 THEN <<Digits[n + 1]>>
    ELSE <<Digits[(n % 10) + 1]>> \o decimal_reversed(n \div 10)

\* the decimal digits of a natural number
RECURSIVE decimal(_)
decimal(n) ==
    IF n < 10 THEN <<Digits[n + 1]>>
    ELSE decimal(n \div 10) \o <<Digits[(n % 10) + 1]>>

\* json.dump of a median: int.__repr__ for a whole number, float.__repr__
\* for a half (the median of an even number of whole samples), "18.5"
json_dumps_number(x) ==
    LET whole == Abs(x[1]) \div x[2]
        tenths == ((Abs(x[1]) % x[2]) * 10) \div x[2]
    IN  (IF x[1] < 0 THEN <<"-">> ELSE << >>)
        \o decimal(whole)
        \o (IF x[2] = 1 THEN << >> ELSE <<".", Digits[tenths + 1]>>)

\* the natural number a run of digits denotes
RECURSIVE digits_value(_)
digits_value(ds) ==
    IF ds = << >> THEN 0
    ELSE 10 * digits_value(SubSeq(ds, 1, Len(ds) - 1)) + DigitValue(ds[Len(ds)])

\* 10 to the power k
RECURSIVE Pow10(_)
Pow10(k) == IF k = 0 THEN 1 ELSE 10 * Pow10(k - 1)

\* json.loads of a number: sign, integer part, optional fraction
json_loads_number(text) ==
    LET negative == text # << >> /\ Head(text) = "-"
        body == IF negative THEN Tail(text) ELSE text
        dots == {i \in 1..Len(body) : body[i] = "."}
        point == IF dots = {} THEN Len(body) + 1 ELSE CHOOSE i \in dots : TRUE
        whole == digits_value(SubSeq(body, 1, point - 1))
        fraction == SubSeq(body, point + 1, Len(body))
        scale == Pow10(Len(fraction))
        magnitude == whole * scale + digits_value(fraction)
    IN  Rat(IF negative THEN -magnitude ELSE magnitude, scale)

\* the baseline file: absent, empty, not JSON, or a JSON object with or
\* without the key "benchmarks" (name -> the text of a number)
BaselineAbsent == [kind |-> "absent", benchmarks |-> EmptyDict]
BaselineEmpty == [kind |-> "empty", benchmarks |-> EmptyDict]
BaselineGarbage == [kind |-> "garbage", benchmarks |-> EmptyDict]
BaselineNoKey == [kind |-> "nokey", benchmarks |-> EmptyDict]
BaselineJson(b) == [kind |-> "json", benchmarks |-> b]

\* mutant: the JSONDecodeError of json.loads is not caught
load_baseline_uncaught(bf) ==
    CASE bf.kind = "garbage" -> Raised("JSONDecodeError")
      [] bf.kind = "json" ->
            [kind |-> "ok",
             value |-> [n \in DOMAIN bf.benchmarks |->
                            json_loads_number(bf.benchmarks[n])]]
      [] OTHER -> [kind |-> "ok", value |-> EmptyDict]

\* load_baseline: {} for an absent file (line 136), an empty one (line
\* 142) and one json.loads rejects (line 147); else data.get("benchmarks", {})
load_baseline(bf) ==
    CASE bf.kind = "absent" -> [kind |-> "ok", value |-> EmptyDict]
      [] bf.kind = "empty" -> [kind |-> "ok", value |-> EmptyDict]
      [] bf.kind = "garbage" -> [kind |-> "ok", value |-> EmptyDict]
      [] bf.kind = "nokey" -> [kind |-> "ok", value |-> EmptyDict]
      [] bf.kind = "json" ->
            [kind |-> "ok",
             value |-> [n \in DOMAIN bf.benchmarks |->
                            json_loads_number(bf.benchmarks[n])]]

\* mutant: the medians are written under another key than "benchmarks"
save_baseline_other_key(rs) == BaselineNoKey

\* save_baseline: {"version": "1.0", "framework": "abies",
\*                 "benchmarks": {name: result.median}}
save_baseline(rs) ==
    BaselineJson([n \in {rs[i].name : i \in 1..Len(rs)} |->
        json_dumps_number(
            (CHOOSE r \in {rs[i] : i \in 1..Len(rs)} : r.name = n).median)])

\* ((current_value - baseline_value) / baseline_value) * 100
diff_percent(current_value, baseline_value) ==
    RMul(RDiv(RSub(current_value, baseline_value), baseline_value), Num(100))

\* mutant: diff_percent >= threshold
is_regression_geq(diff, threshold) == RLeq(Num(threshold), diff)

\* diff_percent > threshold
is_regression(diff, threshold) == RLess(Num(threshold), diff)

\* diff_percent < -threshold
is_improvement(diff, threshold) == RLess(diff, RNeg(Num(threshold)))

Comparison(name, current_value, baseline_value, threshold) ==
    [name |-> name,
     current |-> current_value,
     baseline |-> baseline_value,
     diff_percent |-> diff_percent(current_value, baseline_value),
     is_regression |->
        is_regression(diff_percent(current_value, baseline_value), threshold),
     is_improvement |->
        is_improvement(diff_percent(current_value, baseline_value), threshold)]

\* the results the loop of compare_results does not skip (line 178)
compared_results(current, bl) ==
    SelectSeq(current, LAMBDA r : r.name \in DOMAIN bl)

\* the baseline value of a compared result (line 181)
baseline_value_of(r, bl) == bl[r.name]

\* compare_results: the list of Comparison, or ZeroDivisionError from
\* line 183 when a compared baseline value is 0
compare_results(current, bl, threshold) ==
    LET cs == compared_results(current, bl)
    IN  IF \E i \in 1..Len(cs) : RIsZero(baseline_value_of(cs[i], bl))
        THEN Raised("ZeroDivisionError")
        ELSE [kind |-> "ok",
              value |-> [i \in 1..Len(cs) |->
                            Comparison(cs[i].name, cs[i].median,
                                       baseline_value_of(cs[i], bl), threshold)]]

(***************************************************************************)
(* compare-benchmark.py: main.                                             *)
(***************************************************************************)
\* the files abies*.json of the results directory, in sorted path order
\* ('-' sorts before '_'); the first and the last derive the same benchmark
\* name, and the names of the first two come in descending order
StemOrder ==
    << <<"abies-keyed", "02", "replace1k">>,
       <<"abies", "01", "run1k">>,
       <<"abies", "02", "replace1k">> >>

ResultStems == {StemOrder[i] : i \in 1..Len(StemOrder)}

\* find_result_files: sorted(results_dir.glob(pattern))
find_result_files(dir) == SelectSeq(StemOrder, LAMBDA st : st \in dir)

\* the documents the result files of a comparison run may hold
CurrentSamples == {18, 19, 21, 22}
RunDocuments ==
    {Flat(<<v>>) : v \in CurrentSamples}
    \cup {Malformed, NoValues, Keyed(Absent, Absent), Flat(<< >>), Scalar(TRUE)}

\* --threshold
Thresholds == {0, 5, 10}

\* the baseline files the first run may find
BaselineNames == {<<"01", "run1k">>, <<"02", "replace1k">>, <<"09", "clear1k">>}
BaselineValues == {-20, 0, 20}
BaselineText(v) ==
    CASE v = -20 -> <<"-", "2", "0">>
      [] v = 0 -> <<"0">>
      [] v = 20 -> <<"2", "0">>
BaselineFiles ==
    {BaselineAbsent, BaselineEmpty, BaselineGarbage, BaselineNoKey}
    \cup {BaselineJson([n \in ns |-> BaselineText(20)]) :
            ns \in SUBSET BaselineNames}
    \cup {BaselineJson([n \in ns |-> BaselineText(v)]) :
            ns \in SUBSET {<<"01", "run1k">>, <<"02", "replace1k">>},
            v \in BaselineValues}
    \cup {BaselineJson(<<"01", "run1k">> :> BaselineText(v)
                        @@ <<"02", "replace1k">> :> BaselineText(w)) :
            v \in BaselineValues, w \in BaselineValues}

DeltaArgs == [threshold : Thresholds, update_baseline : BOOLEAN]

Exit(code) ==
    /\ pc' = "exit"
    /\ exit_code' = code
    /\ traceback' = None

\* an uncaught exception: the interpreter prints the traceback and exits 1
Crash(exc) ==
    /\ pc' = "exit"
    /\ exit_code' = 1
    /\ traceback' = exc

\* lines 255-262: the directory is listed; no file -> sys.exit(1)
FindResultFiles ==
    /\ script = "compare-benchmark"
    /\ pc = "start"
    /\ \E dir \in SUBSET ResultStems :
        /\ result_files' = find_result_files(dir)
        /\ IF dir = {}
           THEN Exit(1)
           ELSE pc' = "parse" /\ UNCHANGED <<exit_code, traceback>>
    /\ UNCHANGED <<script, stdout, results, args, documents, baseline_file, baseline,
                   comparisons, e2e_vars, norm_vars, tool_vars, ratio_vars>>

\* lines 266-269: one iteration of the parse loop, on the next file of
\* result_files; the document is what open() / json.load find in it
ParseNextFile ==
    /\ script = "compare-benchmark"
    /\ pc = "parse"
    /\ Len(documents) < Len(result_files)
    /\ \E doc \in RunDocuments :
        LET result == parse_result_file(result_files[Len(documents) + 1], doc)
        IN  /\ documents' = Append(documents, doc)
            /\ IF result.kind = "raise"
               THEN Crash(result.exc) /\ UNCHANGED results
               ELSE /\ results' = IF result.kind = "result"
                                  THEN dict_set(results, result) ELSE results
                    /\ UNCHANGED <<pc, exit_code, traceback>>
    /\ UNCHANGED <<script, stdout, args, result_files, baseline_file, baseline,
                   comparisons, e2e_vars, norm_vars, tool_vars, ratio_vars>>

\* sorted(comparisons, key=lambda c: c.name): a stable sort, the names in
\* the order of their strings
BenchmarkOrder == << <<"01", "run1k">>, <<"02", "replace1k">> >>

RECURSIVE sorted_by_name(_, _)
sorted_by_name(cs, order) ==
    IF order = << >> THEN << >>
    ELSE SelectSeq(cs, LAMBDA c : c.name = Head(order))
            \o sorted_by_name(cs, Tail(order))

\* format_comparison_table: one row per Comparison, with its status
format_comparison_table(cs) ==
    LET srt == sorted_by_name(cs, BenchmarkOrder)
    IN  [i \in 1..Len(srt) |->
            [table |-> "benchmark",
             name |-> srt[i].name,
             status |-> IF srt[i].is_regression THEN "REGRESSION"
                        ELSE IF srt[i].is_improvement THEN "Improved"
                        ELSE "OK"]]

\* lines 308-318: the regressions, listed in the order of the comparisons
regression_listing(cs) ==
    LET regressions == SelectSeq(cs, LAMBDA c : c.is_regression)
    IN  [i \in 1..Len(regressions) |->
            [table |-> "regressions",
             name |-> regressions[i].name,
             status |-> "REGRESSION"]]

\* mutant: improvements are counted as failures too
report_exit_any_change(cs) ==
    IF cs = << >> THEN 0
    ELSE IF \E i \in 1..Len(cs) : cs[i].is_regression \/ cs[i].is_improvement
    THEN 1
    ELSE 0

\* the exit code of lines 298-320 for the list of comparisons
report_exit(cs) ==
    IF cs = << >> THEN 0
    ELSE IF \E i \in 1..Len(cs) : cs[i].is_regression THEN 1
    ELSE 0

\* mutant: the first comparison run stores its results as the baseline
NoBaselineRun_saving ==
    /\ Exit(0)
    /\ baseline_file' = save_baseline(results)
    /\ UNCHANGED <<comparisons, stdout>>

\* lines 285-294: no baseline (absent, empty or unparsable file, or no
\* benchmarks in it): the current results are printed, sys.exit(0)
NoBaselineRun ==
    /\ Exit(0)
    /\ UNCHANGED <<baseline_file, comparisons, stdout>>

\* lines 271-320: after the loop
CompareOrUpdate ==
    /\ script = "compare-benchmark"
    /\ pc = "parse"
    /\ Len(documents) = Len(result_files)
    /\ IF results = << >>
       THEN Exit(1) /\ UNCHANGED <<baseline_file, baseline, comparisons, stdout>>
       ELSE IF args.update_baseline
       THEN /\ baseline_file' = save_baseline(results)
            /\ Exit(0)
            /\ UNCHANGED <<baseline, comparisons, stdout>>
       ELSE LET loaded == load_baseline(baseline_file)
            IN  IF loaded.kind = "raise"
                THEN /\ Crash(loaded.exc)
                     /\ UNCHANGED <<baseline_file, baseline, comparisons, stdout>>
                ELSE /\ baseline' = loaded.value
                     /\ IF baseline' = EmptyDict
                        THEN NoBaselineRun
                        ELSE LET c == compare_results(results, baseline',
                                                      args.threshold)
                             IN  IF c.kind = "raise"
                                 THEN /\ Crash(c.exc)
                                      /\ UNCHANGED <<baseline_file, comparisons,
                                                     stdout>>
                                 ELSE /\ UNCHANGED baseline_file
                                      /\ comparisons' = c.value
                                      /\ stdout' = format_comparison_table(c.value)
                                                    \o regression_listing(c.value)
                                      /\ Exit(report_exit(c.value))
    /\ UNCHANGED <<script, results, args, result_files, documents,
                   e2e_vars, norm_vars, tool_vars, ratio_vars>>

\* the script is run again (the next CI job): only the baseline file stays
RunAgain ==
    /\ script = "compare-benchmark"
    /\ pc = "exit"
    /\ pc' = "start"
    /\ exit_code' = NoExit
    /\ traceback' = None
    /\ args' \in DeltaArgs
    /\ results' = << >>
    /\ result_files' = << >>
    /\ documents' = << >>
    /\ stdout' = << >>
    /\ baseline' = EmptyDict
    /\ comparisons' = << >>
    /\ UNCHANGED <<script, baseline_file, e2e_vars, norm_vars, tool_vars, ratio_vars>>

InitDelta ==
    /\ script = "compare-benchmark"
    /\ pc = "start"
    /\ exit_code = NoExit
    /\ traceback = None
    /\ stdout = << >>
    /\ args \in DeltaArgs
    /\ results = << >>
    /\ result_files = << >>
    /\ documents = << >>
    /\ baseline_file \in BaselineFiles
    /\ baseline = EmptyDict
    /\ comparisons = << >>
    /\ IdleRatio
    /\ IdleE2E
    /\ IdleNorm
    /\ IdleTools

NextDelta == FindResultFiles \/ ParseNextFile \/ CompareOrUpdate \/ RunAgain

SpecDelta == InitDelta /\ [][NextDelta]_vars

(***************************************************************************)
(* compare-benchmarks.py: the metric files and the ratio-percent           *)
(* comparator.                                                             *)
(***************************************************************************)
\* the benchmark names of the merged reports, in sorted order
MethodOrder == <<"Diff", "Render">>
Methods == {MethodOrder[i] : i \in 1..Len(MethodOrder)}

\* sorted(names)
sorted_names(names) == SelectSeq(MethodOrder, LAMBDA n : n \in names)

MetricsAbsent == [kind |-> "absent", items |-> << >>]
MetricsMalformed == [kind |-> "malformed", items |-> << >>]
MetricsJson(items) == [kind |-> "json", items |-> items]

\* the dict built by the loops of lines 53-59 and 73-77 from the first k
\* items: a later item of the same name replaces an earlier one
RECURSIVE metrics_of(_, _)
metrics_of(items, keep_all) ==
    IF items = << >> THEN EmptyDict
    ELSE LET front == metrics_of(SubSeq(items, 1, Len(items) - 1), keep_all)
             last == items[Len(items)]
         IN  IF keep_all \/ last.value > 0
             THEN [n \in DOMAIN front \cup {last.name} |->
                       IF n = last.name THEN last.value ELSE front[n]]
             ELSE front

\* load_throughput_metrics: name -> Statistics.Mean, entries with mean > 0
\* only; json.load raises on a malformed file
load_throughput_metrics(f) ==
    CASE f.kind = "absent" -> [kind |-> "ok", value |-> EmptyDict]
      [] f.kind = "malformed" -> Raised("JSONDecodeError")
      [] f.kind = "json" -> [kind |-> "ok", value |-> metrics_of(f.items, FALSE)]

\* load_allocation_metrics: name -> value, every item
load_allocation_metrics(f) ==
    CASE f.kind = "absent" -> [kind |-> "ok", value |-> EmptyDict]
      [] f.kind = "malformed" -> Raised("JSONDecodeError")
      [] f.kind = "json" -> [kind |-> "ok", value |-> metrics_of(f.items, TRUE)]

\* mutant: ratio_percent < threshold_percent
passed_strict(pr_val, baseline_val, threshold_percent, is_throughput) ==
    RLess(RMul(Rat(pr_val, baseline_val), Num(100)), Num(threshold_percent))

\* mutant: a faster run passes only for time-based metrics; for allocations
\* the sign of the test is flipped
passed_by_kind(pr_val, baseline_val, threshold_percent, is_throughput) ==
    IF is_throughput
    THEN RLeq(RMul(Rat(pr_val, baseline_val), Num(100)), Num(threshold_percent))
    ELSE RLeq(Num(threshold_percent), RMul(Rat(pr_val, baseline_val), Num(100)))

\* lines 108-112: ratio = pr_val / baseline_val; ratio_percent = ratio * 100;
\* passed = ratio_percent <= threshold_percent
passed(pr_val, baseline_val, threshold_percent, is_throughput) ==
    RLeq(RMul(Rat(pr_val, baseline_val), Num(100)), Num(threshold_percent))

BenchmarkComparison(name, baseline_val, pr_val, unit, threshold, is_throughput) ==
    [name |-> name,
     baseline_value |-> baseline_val,
     pr_value |-> pr_val,
     unit |-> unit,
     ratio |-> Rat(pr_val, baseline_val),
     threshold |-> threshold,
     passed |-> passed(pr_val, baseline_val, threshold, is_throughput),
     is_throughput |-> is_throughput]

\* line 105: if baseline_val <= 0: continue
valid_baseline(baseline_val) == baseline_val > 0

\* compare_metrics
compare_metrics(bl, pr, threshold_percent, unit, is_throughput) ==
    LET common_names == DOMAIN bl \cap DOMAIN pr
        names == SelectSeq(sorted_names(common_names),
                           LAMBDA n : valid_baseline(bl[n]))
    IN  [i \in 1..Len(names) |->
            BenchmarkComparison(names[i], bl[names[i]], pr[names[i]], unit,
                                threshold_percent, is_throughput)]

\* print_comparison_table: the rows it prints, one per comparison
comparison_rows(cs, title) ==
    [i \in 1..Len(cs) |->
        [table |-> title,
         name |-> cs[i].name,
         status |-> IF cs[i].passed THEN "PASS" ELSE "FAIL"]]

\* print_comparison_table: (passed_count, failed_count)
print_comparison_table(cs) ==
    <<Cardinality({i \in 1..Len(cs) : cs[i].passed}),
      Cardinality({i \in 1..Len(cs) : ~cs[i].passed})>>

(***************************************************************************)
(* compare-benchmarks.py: main.                                            *)
(***************************************************************************)
ThroughputMeans == {0, 20, 22, 24}
AllocationValues == {-20, 0, 20, 25}

ThroughputFiles ==
    {MetricsAbsent, MetricsMalformed}
    \cup {MetricsJson(items) :
            items \in SeqsUpTo([name : Methods, value : ThroughputMeans],
                               MaxBenchmarks)}

AllocationFiles ==
    {MetricsAbsent, MetricsMalformed}
    \cup {MetricsJson(items) :
            items \in SeqsUpTo([name : Methods, value : AllocationValues],
                               MaxBenchmarks)}

DefaultThroughputThreshold == 110
DefaultAllocationThreshold == 120

RatioArgs ==
    [throughput_threshold : {DefaultThroughputThreshold},
     allocation_threshold : {DefaultAllocationThreshold}]

\* lines 216-223: a missing directory -> sys.exit(2)
ValidateDirectories ==
    /\ script = "compare-benchmarks"
    /\ pc = "start"
    /\ \E baseline_dir_exists \in BOOLEAN, pr_dir_exists \in BOOLEAN :
        IF baseline_dir_exists /\ pr_dir_exists
        THEN pc' = "load_baseline_throughput" /\ UNCHANGED <<exit_code, traceback>>
        ELSE Exit(2)
    /\ UNCHANGED <<script, stdout, results, args, delta_vars, ratio_vars,
                   e2e_vars, norm_vars, tool_vars>>

\* one of the four loads of lines 234-238, into the dict named by pc
LoadInto(loaded, next_pc) ==
    IF loaded.kind = "raise"
    THEN Crash(loaded.exc)
    ELSE pc' = next_pc /\ UNCHANGED <<exit_code, traceback>>

LoadBaselineThroughput ==
    /\ script = "compare-benchmarks"
    /\ pc = "load_baseline_throughput"
    /\ \E f \in ThroughputFiles :
        LET loaded == load_throughput_metrics(f)
        IN  /\ LoadInto(loaded, "load_pr_throughput")
            /\ baseline_throughput' =
                 IF loaded.kind = "raise" THEN baseline_throughput ELSE loaded.value
    /\ UNCHANGED <<script, stdout, results, args, delta_vars, pr_throughput,
                   baseline_allocations, pr_allocations,
                   throughput_comparisons, allocation_comparisons,
                   e2e_vars, norm_vars, tool_vars>>

LoadPrThroughput ==
    /\ script = "compare-benchmarks"
    /\ pc = "load_pr_throughput"
    /\ \E f \in ThroughputFiles :
        LET loaded == load_throughput_metrics(f)
        IN  /\ LoadInto(loaded, "load_baseline_allocations")
            /\ pr_throughput' =
                 IF loaded.kind = "raise" THEN pr_throughput ELSE loaded.value
    /\ UNCHANGED <<script, stdout, results, args, delta_vars, baseline_throughput,
                   baseline_allocations, pr_allocations,
                   throughput_comparisons, allocation_comparisons,
                   e2e_vars, norm_vars, tool_vars>>

LoadBaselineAllocations ==
    /\ script = "compare-benchmarks"
    /\ pc = "load_baseline_allocations"
    /\ \E f \in AllocationFiles :
        LET loaded == load_allocation_metrics(f)
        IN  /\ LoadInto(loaded, "load_pr_allocations")
            /\ baseline_allocations' =
                 IF loaded.kind = "raise" THEN baseline_allocations ELSE loaded.value
    /\ UNCHANGED <<script, stdout, results, args, delta_vars, baseline_throughput,
                   pr_throughput, pr_allocations,
                   throughput_comparisons, allocation_comparisons,
                   e2e_vars, norm_vars, tool_vars>>

LoadPrAllocations ==
    /\ script = "compare-benchmarks"
    /\ pc = "load_pr_allocations"
    /\ \E f \in AllocationFiles :
        LET loaded == load_allocation_metrics(f)
        IN  /\ LoadInto(loaded, "compare")
            /\ pr_allocations' =
                 IF loaded.kind = "raise" THEN pr_allocations ELSE loaded.value
    /\ UNCHANGED <<script, stdout, results, args, delta_vars, baseline_throughput,
                   pr_throughput, baseline_allocations,
                   throughput_comparisons, allocation_comparisons,
                   e2e_vars, norm_vars, tool_vars>>

\* lines 288-293: the exit code for the number of failed comparisons
summary_exit(total_failed) == IF total_failed > 0 THEN 1 ELSE 0

\* lines 240-293: no metrics on one side -> sys.exit(2); else both
\* comparisons, the two tables, and exit 1 when a comparison failed
CompareAndReport ==
    /\ script = "compare-benchmarks"
    /\ pc = "compare"
    /\ IF baseline_throughput = EmptyDict /\ baseline_allocations = EmptyDict
       THEN /\ Exit(2)
            /\ UNCHANGED <<throughput_comparisons, allocation_comparisons, stdout>>
       ELSE IF pr_throughput = EmptyDict /\ pr_allocations = EmptyDict
       THEN /\ Exit(2)
            /\ UNCHANGED <<throughput_comparisons, allocation_comparisons, stdout>>
       ELSE /\ throughput_comparisons' =
                 compare_metrics(baseline_throughput, pr_throughput,
                                 args.throughput_threshold, "ns", TRUE)
            /\ allocation_comparisons' =
                 compare_metrics(baseline_allocations, pr_allocations,
                                 args.allocation_threshold, "bytes", FALSE)
            /\ stdout' = comparison_rows(throughput_comparisons', "throughput")
                            \o comparison_rows(allocation_comparisons', "allocation")
            /\ LET tp == print_comparison_table(throughput_comparisons')
                   alloc == print_comparison_table(allocation_comparisons')
               IN  Exit(summary_exit(tp[2] + alloc[2]))
    /\ UNCHANGED <<script, results, args, delta_vars, metric_vars,
                   e2e_vars, norm_vars, tool_vars>>

InitRatio ==
    /\ script = "compare-benchmarks"
    /\ pc = "start"
    /\ exit_code = NoExit
    /\ traceback = None
    /\ stdout = << >>
    /\ args \in RatioArgs
    /\ results = << >>
    /\ IdleDelta
    /\ IdleRatio
    /\ IdleE2E
    /\ IdleNorm
    /\ IdleTools

NextRatio ==
    \/ ValidateDirectories
    \/ LoadBaselineThroughput
    \/ LoadPrThroughput
    \/ LoadBaselineAllocations
    \/ LoadPrAllocations
    \/ CompareAndReport

SpecRatio == InitRatio /\ [][NextRatio]_vars

\* either comparison script
InitCmp == InitDelta \/ InitRatio
NextCmp == NextDelta \/ NextRatio
SpecCmp == InitCmp /\ [][NextCmp]_vars

(***************************************************************************)
(* Claims about the comparators (SpecDelta, SpecRatio, SpecCmp).           *)
(***************************************************************************)
\* the names of a list of records
NamesOf(rs) == {rs[i].name : i \in 1..Len(rs)}

\* no name occurs twice in the list
DistinctNames(rs) ==
    \A i \in 1..Len(rs), j \in 1..Len(rs) : rs[i].name = rs[j].name => i = j

\* the numerator of current - baseline over the denominator cur[2] * base[2]
DeltaNum(cur, base) == cur[1] * base[2] - base[1] * cur[2]

\* (current - baseline) / baseline * 100 > t, by cross-multiplication
\* (base # 0; the inequality turns when the baseline is negative)
DiffAbove(cur, base, t) ==
    IF base[1] > 0
    THEN 100 * DeltaNum(cur, base) > t * base[1] * cur[2]
    ELSE 100 * DeltaNum(cur, base) < t * base[1] * cur[2]

\* (current - baseline) / baseline * 100 < t
DiffBelow(cur, base, t) ==
    IF base[1] > 0
    THEN 100 * DeltaNum(cur, base) < t * base[1] * cur[2]
    ELSE 100 * DeltaNum(cur, base) > t * base[1] * cur[2]

\* the result of the current set that a comparison is about
CurrentOf(c) == CHOOSE r \in {results[i] : i \in 1..Len(results)} : r.name = c.name

RatioWithin(pr_val, baseline_val, t) ==
    IF baseline_val > 0
    THEN 100 * pr_val <= t * baseline_val
    ELSE 100 * pr_val >= t * baseline_val

\* the list compare_metrics must produce a verdict for: the common names
\* with a valid baseline
RatioVerdicts(cs, bl, pr, t) ==
    /\ \A n \in DOMAIN bl \cap DOMAIN pr : bl[n] > 0 => n \in NamesOf(cs)
    /\ \A i \in 1..Len(cs) :
        /\ cs[i].baseline_value = bl[cs[i].name]
        /\ cs[i].pr_value = pr[cs[i].name]
        /\ cs[i].threshold = t
        /\ cs[i].passed <=> RatioWithin(cs[i].pr_value, cs[i].baseline_value, t)

Compared == script = "compare-benchmarks" /\ pc = "exit" /\ exit_code \in {0, 1}
                /\ traceback = None

DeltaCompared ==
    /\ script = "compare-benchmark"
    /\ pc = "exit"
    /\ Len(documents) = Len(result_files)
    /\ traceback \in {None, "ZeroDivisionError"}
    /\ results # << >>
    /\ ~args.update_baseline

\* C8: under both policies the names of the Comparison output are names
\* present in both the current and the reference set, each at most once; a
\* name present on one side only produces no Comparison and no failure: a
\* run that fails after comparing has a failing Comparison of a common
\* name, and a run without common names ends with exit code 0.
C8_OnlyCommonNames ==
    /\ script = "compare-benchmark" =>
        /\ NamesOf(comparisons) \subseteq NamesOf(results) \cap DOMAIN baseline
        /\ DistinctNames(comparisons)
        /\ DistinctNames(results)
    /\ DeltaCompared =>
        /\ (exit_code = 1 /\ traceback = None) =>
                \E i \in 1..Len(comparisons) : comparisons[i].is_regression
        /\ traceback # None =>
                \E n \in NamesOf(results) \cap DOMAIN baseline : RIsZero(baseline[n])
        /\ NamesOf(results) \cap DOMAIN baseline = {} =>
                (exit_code = 0 /\ comparisons = << >>)
    /\ script = "compare-benchmarks" =>
        /\ NamesOf(throughput_comparisons)
                \subseteq DOMAIN baseline_throughput \cap DOMAIN pr_throughput
        /\ NamesOf(allocation_comparisons)
                \subseteq DOMAIN baseline_allocations \cap DOMAIN pr_allocations
        /\ DistinctNames(throughput_comparisons)
        /\ DistinctNames(allocation_comparisons)
    /\ Compared =>
        /\ exit_code = 1 =>
                \/ \E i \in 1..Len(throughput_comparisons) :
                        ~throughput_comparisons[i].passed
                \/ \E i \in 1..Len(allocation_comparisons) :
                        ~allocation_comparisons[i].passed
        /\ (/\ DOMAIN baseline_throughput \cap DOMAIN pr_throughput = {}
            /\ DOMAIN baseline_allocations \cap DOMAIN pr_allocations = {})
                => exit_code = 0

\* C8 witness: a delta run whose current set has a name the baseline lacks,
\* whose baseline has a name the current set lacks, and which compared the
\* one common name (two files derived it) and passed.
C8_Witness ==
    /\ DeltaCompared
    /\ NamesOf(results) \ DOMAIN baseline # {}
    /\ DOMAIN baseline \ NamesOf(results) # {}
    /\ Len(comparisons) = 1
    /\ exit_code = 0

\* C9: under both policies a name whose reference value is zero or negative
\* never appears in the Comparison output, and the comparison completes
\* without a division error.
C9_InvalidBaselineSkipped ==
    /\ script = "compare-benchmark" =>
        /\ \A i \in 1..Len(comparisons) : RLess(Num(0), comparisons[i].baseline)
        /\ traceback # "ZeroDivisionError"
    /\ script = "compare-benchmarks" =>
        /\ \A i \in 1..Len(throughput_comparisons) :
                throughput_comparisons[i].baseline_value > 0
        /\ \A i \in 1..Len(allocation_comparisons) :
                allocation_comparisons[i].baseline_value > 0
        /\ traceback # "ZeroDivisionError"

\* C9 restricted to the ratio policy (compare_metrics), where it holds
C9_RatioInvalidBaselineSkipped ==
    script = "compare-benchmarks" =>
        /\ \A i \in 1..Len(throughput_comparisons) :
                throughput_comparisons[i].baseline_value > 0
        /\ \A i \in 1..Len(allocation_comparisons) :
                allocation_comparisons[i].baseline_value > 0
        /\ traceback # "ZeroDivisionError"

(***************************************************************************)
(* Claims about the batch of result files and the exit codes of the        *)
(* comparison scripts.                                                     *)
(***************************************************************************)
\* a document without a per-file error: a recognized shape with samples
WellFormed(doc) == RecognizedShape(doc) /\ SampleSequence(doc) # << >>

\* the files read so far that hold a well-formed document
WellFormedFiles == {i \in 1..Len(documents) : WellFormed(documents[i])}

\* the batch was read to its end and the records are those of its
\* well-formed files: a name has a record exactly when a well-formed file
\* derives it, and the record holds the samples of such a file
BatchRecords ==
    /\ (pc = "exit" /\ result_files # << >>) => Len(documents) = Len(result_files)
    /\ traceback \in {None, "ZeroDivisionError"}
    /\ NamesOf(results) = {benchmark_name(result_files[i]) : i \in WellFormedFiles}
    /\ \A k \in 1..Len(results) :
            \E i \in WellFormedFiles :
                /\ benchmark_name(result_files[i]) = results[k].name
                /\ results[k].values = SampleSequence(documents[i])

\* C13: in a batch of result files, a file with a per-file error (malformed
\* JSON, no recognized key, unrecognized values shape, empty sample set) is
\* skipped and never aborts the run: every file of the batch is read, and
\* the records are those of the well-formed files wherever the bad file
\* sits in the batch.
C13_BadFileSkipped ==
    script = "compare-benchmark" => BatchRecords

\* C13 restricted to the batches whose bad files are malformed JSON or lack
\* a recognized key (no "values", no total / DEFAULT), where it holds
C13_UnparsableFileSkipped ==
    (/\ script = "compare-benchmark"
     /\ \A i \in 1..Len(documents) :
            documents[i].shape \in {"malformed", "novalues", "keyed"}
                \/ WellFormed(documents[i]))
        => BatchRecords

\* the rows of the printed tables that belong to table title
RowsOf(title) == SelectSeq(stdout, LAMBDA row : row.table = title)

\* the delta script loaded a baseline and completed its comparison
DeltaReported == DeltaCompared /\ traceback = None /\ baseline # EmptyDict

\* C14: once the inputs are loaded and compared, the run ends with a
\* non-zero exit code if and only if at least one Comparison fails its
\* threshold (is_regression under the delta policy, passed = false under the
\* ratio policy, for throughput or allocations); improvements and neutral
\* results never fail the run; every Comparison, passing or failing, has
\* its row in the printed table.
C14_ExitIffFailingComparison ==
    /\ DeltaReported =>
        /\ exit_code # 0 <=> \E i \in 1..Len(comparisons) : comparisons[i].is_regression
        /\ Len(RowsOf("benchmark")) = Len(comparisons)
        /\ \A i \in 1..Len(comparisons) :
                \E k \in 1..Len(stdout) :
                    /\ stdout[k].name = comparisons[i].name
                    /\ stdout[k].status = "REGRESSION" <=> comparisons[i].is_regression
    /\ Compared =>
        /\ exit_code # 0 <=>
                \/ \E i \in 1..Len(throughput_comparisons) :
                        ~throughput_comparisons[i].passed
                \/ \E i \in 1..Len(allocation_comparisons) :
                        ~allocation_comparisons[i].passed
        /\ Len(RowsOf("throughput")) = Len(throughput_comparisons)
        /\ Len(RowsOf("allocation")) = Len(allocation_comparisons)
        /\ \A i \in 1..Len(throughput_comparisons) :
                /\ RowsOf("throughput")[i].name = throughput_comparisons[i].name
                /\ RowsOf("throughput")[i].status = "PASS"
                        <=> throughput_comparisons[i].passed
        /\ \A i \in 1..Len(allocation_comparisons) :
                /\ RowsOf("allocation")[i].name = allocation_comparisons[i].name
                /\ RowsOf("allocation")[i].status = "PASS"
                        <=> allocation_comparisons[i].passed

\* C14 witness: a delta run that reported an improvement and a neutral
\* result, no regression, and ended with exit code 0.
C14_Witness ==
    /\ DeltaReported
    /\ exit_code = 0
    /\ Len(stdout) = 2
    /\ \E i \in 1..Len(comparisons), j \in 1..Len(comparisons) :
        /\ comparisons[i].is_improvement
        /\ ~comparisons[j].is_improvement
        /\ ~comparisons[j].is_regression

\* C14 witness of the failing side: a ratio run that printed a passing and
\* a failing row and ended with exit code 1
C14_RatioFailureReported ==
    /\ Compared
    /\ exit_code = 1
    /\ \E k \in 1..Len(stdout), l \in 1..Len(stdout) :
        stdout[k].status = "PASS" /\ stdout[l].status = "FAIL"

\* the delta script ended on a run-level structural error: no result files
\* found, or no valid results parsed
DeltaStructuralError ==
    /\ script = "compare-benchmark"
    /\ pc = "exit"
    /\ traceback = None
    /\ Len(documents) = Len(result_files)
    /\ results = << >>

\* the ratio script ended on a run-level structural error: a missing
\* directory, or no metrics on one side
RatioStructuralError ==
    /\ script = "compare-benchmarks"
    /\ pc = "exit"
    /\ traceback = None
    /\ \/ baseline_throughput = EmptyDict /\ baseline_allocations = EmptyDict
       \/ pr_throughput = EmptyDict /\ pr_allocations = EmptyDict

\* the exit code of a run of the delta script that completed its comparison
\* and found a regression (22 against a baseline of 20, threshold 5)
DeltaRegressionExit ==
    report_exit(<<Comparison(<<"01", "run1k">>, Num(22), Num(20), 5)>>)

\* the exit code of a run of the ratio script with one failed comparison
RatioRegressionExit == summary_exit(1)

\* C15: a run that ends on a run-level structural error (no result files, no
\* valid results, missing directory, no metrics on one side) ends with an
\* exit code different from that of a run that completed a comparison and
\* found a regression, in both comparison scripts.
C15_StructuralErrorDistinct ==
    /\ DeltaStructuralError => exit_code # DeltaRegressionExit
    /\ RatioStructuralError => exit_code # RatioRegressionExit
    /\ (DeltaReported /\ \E i \in 1..Len(comparisons) : comparisons[i].is_regression)
            => exit_code = DeltaRegressionExit
    /\ (Compared /\ \E k \in 1..Len(stdout) : stdout[k].status = "FAIL")
            => exit_code = RatioRegressionExit

\* C15 restricted to the same-job comparison script, where it holds
C15_RatioStructuralErrorDistinct ==
    /\ RatioStructuralError => exit_code # RatioRegressionExit
    /\ (Compared /\ \E k \in 1..Len(stdout) : stdout[k].status = "FAIL")
            => exit_code = RatioRegressionExit

\* C16: over any sequence of runs of the baseline comparison script the
\* stored baseline changes only in a run invoked with --update-baseline (a
\* step that changes the file is the save of such a run, ending with exit
\* code 0); a comparison run, whatever its baseline and its verdicts, leaves
\* the file as it is; and an update run loads no baseline and performs no
\* comparison.
C16_BaselineChangesOnlyOnUpdate ==
    [][/\ baseline_file' # baseline_file =>
            /\ args.update_baseline
            /\ args' = args
            /\ baseline_file' = save_baseline(results)
            /\ exit_code' = 0
       /\ args'.update_baseline =>
            /\ baseline' = EmptyDict
            /\ comparisons' = << >>
            /\ stdout' = << >>]_vars

\* the Baseline Map the baseline file holds, if any
StoredMap ==
    IF baseline_file.kind = "json"
    THEN [n \in DOMAIN baseline_file.benchmarks |->
            json_loads_number(baseline_file.benchmarks[n])]
    ELSE EmptyDict

\* C16 witness: a comparison run found a regression and ended, and the
\* stored baseline is still the mapping it loaded, not its own results.
C16_Witness ==
    /\ DeltaReported
    /\ \E i \in 1..Len(comparisons) : comparisons[i].is_regression
    /\ baseline_file.kind = "json"
    /\ StoredMap = baseline
    /\ baseline_file # save_baseline(results)

\* C16 witness of the update run: it stored the medians of its results over
\* a different baseline and compared nothing
C16_UpdateStored ==
    /\ script = "compare-benchmark"
    /\ pc = "exit"
    /\ args.update_baseline
    /\ results # << >>
    /\ baseline_file = save_baseline(results)
    /\ comparisons = << >>

\* a comparison run found no baseline and completed successfully
FirstRunCompleted ==
    /\ script = "compare-benchmark"
    /\ pc = "exit"
    /\ ~args.update_baseline
    /\ traceback = None
    /\ exit_code = 0
    /\ results # << >>
    /\ Len(documents) = Len(result_files)
    /\ baseline = EmptyDict

\* C17: after the first comparison run that completes successfully while no
\* baseline exists, a Baseline Map exists (the baseline file holds a
\* non-empty mapping), so that the next comparison run reads it and compares
\* against it.
C17_FirstRunCreatesBaseline ==
    FirstRunCompleted =>
        /\ baseline_file.kind = "json"
        /\ StoredMap # EmptyDict

\* a run with --update-baseline completed
UpdateRunCompleted ==
    /\ script = "compare-benchmark"
    /\ pc = "exit"
    /\ args.update_baseline
    /\ exit_code = 0

\* C17 as amended: the first comparison run that completes while no baseline
\* exists leaves no Baseline Map behind; a Baseline Map (the medians of the
\* run's results) exists after a completed run with --update-baseline, and
\* a later comparison run reads the stored mapping and, when the run is not
\* ended by a division error, compares every common name against it.
C17_UpdateRunCreatesBaseline ==
    /\ FirstRunCompleted => StoredMap = EmptyDict
    /\ UpdateRunCompleted =>
        /\ baseline_file.kind = "json"
        /\ DOMAIN StoredMap = NamesOf(results)
        /\ \A k \in 1..Len(results) :
                StoredMap[results[k].name] = results[k].median
    /\ DeltaCompared =>
        /\ baseline_file.kind = "json" => baseline = StoredMap
        /\ traceback = None =>
                NamesOf(comparisons) = NamesOf(results) \cap DOMAIN baseline

\* C17 witness: a comparison run compared a result against a baseline value
\* that only an earlier update run can have stored (a median of a run).
C17_Witness ==
    /\ DeltaReported
    /\ \E i \in 1..Len(comparisons) :
            comparisons[i].baseline \in {Num(v) : v \in CurrentSamples}

\* a comparison run parsed its files, has results, and ended
ComparisonRunEnded ==
    /\ script = "compare-benchmark"
    /\ pc = "exit"
    /\ ~args.update_baseline
    /\ Len(documents) = Len(result_files)
    /\ results # << >>
    /\ traceback \notin {"StatisticsError", "TypeError"}

\* C18: load_baseline returns an empty mapping, never an error, when the
\* baseline file is absent, empty or not parsable as JSON; and a comparison
\* run with valid current results and an empty baseline mapping proceeds
\* without comparing and ends with exit code 0.
C18_EmptyBaselineProceeds ==
    script = "compare-benchmark" =>
        /\ baseline_file.kind \in {"absent", "empty", "garbage"} =>
                load_baseline(baseline_file) = [kind |-> "ok", value |-> EmptyDict]
        /\ (ComparisonRunEnded /\ StoredMap = EmptyDict) =>
                /\ traceback = None
                /\ exit_code = 0
                /\ baseline = EmptyDict
                /\ comparisons = << >>
                /\ stdout = << >>

\* C18 witness: a comparison run with results found a baseline file that is
\* not JSON and ended with exit code 0.
C18_Witness ==
    /\ ComparisonRunEnded
    /\ baseline_file.kind = "garbage"
    /\ exit_code = 0
    /\ comparisons = << >>

(***************************************************************************)
(* Claims about the exit codes of the analyzer and of the same-job         *)
(* comparison script.                                                      *)
(***************************************************************************)
AnalyzerEnded == script = "analyze_e2e_results" /\ pc = "exit"

\* C19: the E2E analyzer ends with exit code 2 whenever no test results are
\* found: the TRX file is missing, cannot be parsed, or parses but contains
\* no UnitTestResult element.
C19_NoResultsExitTwo ==
    (AnalyzerEnded /\ (trx.kind # "xml" \/ trx.elems = << >>)) => exit_code = 2

\* C19 restricted to the missing and the unparsable file, where it holds
C19_NoFileExitTwo ==
    (AnalyzerEnded /\ trx.kind # "xml") => exit_code = 2

RatioEnded == script = "compare-benchmarks" /\ pc = "exit"

\* some comparison of the ratio script exceeded its threshold
RatioFailing ==
    \/ \E i \in 1..Len(throughput_comparisons) : ~throughput_comparisons[i].passed
    \/ \E i \in 1..Len(allocation_comparisons) : ~allocation_comparisons[i].passed

\* C20: the same-job comparison script ends with exit code 2 on every error
\* condition (missing directory, missing files, no metrics on one side, a
\* metrics file with invalid data) and with exit code 1 only when a compared
\* benchmark exceeded its threshold.
C20_ErrorsExitTwo ==
    RatioEnded =>
        /\ traceback # None => exit_code = 2
        /\ RatioStructuralError => exit_code = 2
        /\ exit_code = 1 => RatioFailing

\* C20 restricted to the runs whose metrics files are absent or valid JSON,
\* where it holds
C20_StructuralErrorsExitTwo ==
    (RatioEnded /\ traceback = None) =>
        /\ RatioStructuralError => exit_code = 2
        /\ exit_code = 1 => RatioFailing

(***************************************************************************)
(* Reachability of the last branch of the analyzer's decision (SpecE2E).   *)
(***************************************************************************)
\* the counts have been built from a parsed TRX file
Counted ==
    script = "analyze_e2e_results" /\ pc \in {"parsed", "exit"} /\ trx.kind = "xml"

\* C26: the final 'Unexpected state' branch of main is unreachable: for every
\* list of test results, whenever the count of Failed outcomes is greater
\* than zero, at least one of the assertion, unknown and timeout counts is
\* greater than zero, so the run ends in one of the four documented decisions.
C26_UnexpectedStateUnreachable ==
    (Counted /\ counts.failed > 0) =>
        (counts.assertion > 0 \/ counts.unknown > 0 \/ counts.timeout > 0)

\* C26 witness: a run with a Failed test that matches no pattern, and no
\* other failure, has ended through the unknown branch.
C26_Witness ==
    /\ Analyzed
    /\ counts.failed > 0
    /\ counts.assertion = 0 /\ counts.timeout = 0 /\ counts.unknown > 0
    /\ exit_code = 1

(***************************************************************************)
(* Precedence of the total key over the DEFAULT key (SpecNorm).            *)
(***************************************************************************)
\* a document whose values field is a JSON object was parsed
KeyedParsed ==
    /\ script \in NormScripts
    /\ pc = "parsed"
    /\ file.doc.shape \in {"keyed", "empty"}

\* the samples beneath the value of a key: the list itself, the values
\* array of a statistics object, none for another JSON value
EntryValues(e) ==
    IF e.kind = "list" THEN e.values
    ELSE IF e.kind = "stats" THEN RawValues(e)
    ELSE << >>

\* the record carries the samples of the entry e, and statistics that are
\* those e supplies or statistics of the samples of e
TakenFrom(e) ==
    /\ parsed.kind = "result"
    /\ parsed.values = EntryValues(e)
    /\ IF e.kind = "stats" /\ e.has.median THEN parsed.median = e.median
       ELSE WithinSamples(parsed.median, EntryValues(e))
    /\ IF e.kind = "stats" /\ e.has.mean THEN parsed.mean = e.mean
       ELSE WithinSamples(parsed.mean, EntryValues(e))

\* no record, and a warning was printed
SkippedWithWarning == parsed.kind = "None" /\ parsed.warning # None

\* the values object has neither a total nor a DEFAULT key
NeitherKey(doc) ==
    \/ doc.shape = "empty"
    \/ doc.shape = "keyed" /\ doc.total.kind = "absent"
                           /\ doc.DEFAULT.kind = "absent"

\* the record comes from total when total is present, from DEFAULT when
\* only DEFAULT is present
TotalBeforeDefault ==
    (KeyedParsed /\ ~NeitherKey(file.doc)) =>
        IF file.doc.total.kind # "absent" THEN TakenFrom(file.doc.total)
        ELSE TakenFrom(file.doc.DEFAULT)

\* C23: when the values field is a keyed object, the normalizer takes its
\* samples and statistics from the total key whenever total is present (also
\* when DEFAULT is present too), from the DEFAULT key only when total is
\* absent, and when neither key is present it returns no record (the file is
\* skipped with a warning) without raising.
C23_TotalPrecedence ==
    /\ TotalBeforeDefault
    /\ (KeyedParsed /\ NeitherKey(file.doc)) => SkippedWithWarning

\* C23 with the warning left out for the empty values object, where it holds
\* in both scripts
C23_TotalPrecedenceOrSkipped ==
    /\ TotalBeforeDefault
    /\ (KeyedParsed /\ NeitherKey(file.doc)) =>
            /\ parsed.kind = "None"
            /\ file.doc.shape = "keyed" => parsed.warning # None

\* a document with both keys, whose samples differ, was parsed and the
\* record carries the samples under total
C23_BothKeysParsed ==
    /\ KeyedParsed
    /\ file.doc.shape = "keyed"
    /\ file.doc.total.kind = "list"
    /\ file.doc.DEFAULT.kind = "list"
    /\ file.doc.total.values # file.doc.DEFAULT.values
    /\ parsed.kind = "result"
    /\ parsed.values = file.doc.total.values

(***************************************************************************)
(* One record per name in the baseline comparison script (SpecDelta).      *)
(***************************************************************************)
\* the place of a result file in sorted path order
PathIndex(stem) == CHOOSE i \in 1..Len(StemOrder) : StemOrder[i] = stem

\* the files read so far that yield a record of the name n
RecordFiles(n) ==
    {i \in 1..Len(documents) :
        /\ benchmark_name(result_files[i]) = n
        /\ parse_result_file(result_files[i], documents[i]).kind = "result"}

\* the file of RecordFiles(n) that is last in sorted path order
LastRecordFile(n) ==
    CHOOSE i \in RecordFiles(n) :
        \A j \in RecordFiles(n) :
            PathIndex(result_files[j]) <= PathIndex(result_files[i])

\* its record
LastRecord(n) ==
    parse_result_file(result_files[LastRecordFile(n)], documents[LastRecordFile(n)])

\* C27: in the baseline comparison script the parsed results hold at most
\* one record per name after any batch of files: when several result files
\* derive the same name, only the record of the file last in sorted path
\* order (among those that yield a record) is kept, and it alone is compared
\* and saved to the baseline.
C27_LastFileWins ==
    script = "compare-benchmark" =>
        /\ DistinctNames(results)
        /\ \A k \in 1..Len(results) :
                /\ RecordFiles(results[k].name) # {}
                /\ results[k] = LastRecord(results[k].name)
        /\ DistinctNames(comparisons)
        /\ \A k \in 1..Len(comparisons) :
                /\ RecordFiles(comparisons[k].name) # {}
                /\ comparisons[k].current = LastRecord(comparisons[k].name).median
        /\ UpdateRunCompleted =>
                /\ DOMAIN StoredMap = {n \in NamesOf(results) : RecordFiles(n) # {}}
                /\ \A n \in DOMAIN StoredMap : StoredMap[n] = LastRecord(n).median

\* two files of the same name were read, with different medians
SameNameTwice ==
    /\ script = "compare-benchmark"
    /\ pc = "exit"
    /\ traceback = None
    /\ \E i \in 1..Len(documents), j \in 1..Len(documents) :
            /\ i < j
            /\ i \in RecordFiles(benchmark_name(result_files[j]))
            /\ j \in RecordFiles(benchmark_name(result_files[j]))
            /\ parse_result_file(result_files[i], documents[i]).median
                    # parse_result_file(result_files[j], documents[j]).median

\* C27 witness: two files of the same name with different medians were read
\* and the run compared the name once, against the median of the later file.
C27_Witness ==
    /\ SameNameTwice
    /\ ~args.update_baseline
    /\ Len(comparisons) = 1
    /\ comparisons[1].current = parse_result_file(result_files[2], documents[2]).median
    /\ comparisons[1].current # parse_result_file(result_files[1], documents[1]).median

\* an update run stored the median of the later of two files of a name
C27_LaterMedianSaved ==
    /\ SameNameTwice
    /\ UpdateRunCompleted
    /\ StoredMap[benchmark_name(result_files[2])]
            = parse_result_file(result_files[2], documents[2]).median

(***************************************************************************)
(* Independence of the insertion order of the compared sets (SpecCmp).     *)
(***************************************************************************)
\* the insertion-ordered dicts that hold the same records as s
Reorderings(s) ==
    {t \in [1..Len(s) -> {s[i] : i \in 1..Len(s)}] :
        \A i \in 1..Len(s) : \E j \in 1..Len(s) : t[j] = s[i]}

\* what the delta script produces and reports for the current set other
DeltaOutcome(other) ==
    LET cs == compare_results(other, baseline, args.threshold).value
    IN  [comparisons |-> cs,
         table |-> format_comparison_table(cs),
         listing |-> regression_listing(cs),
         exit_code |-> report_exit(cs)]

\* the place of a benchmark name of the merged reports in sorted order
MethodIndex(n) == CHOOSE i \in 1..Len(MethodOrder) : MethodOrder[i] = n

\* the comparisons cs are fixed by the (name, value) pairs of bl and pr:
\* one per common name with a valid baseline, in ascending name order, with
\* the values of the two sets
FixedByPairs(cs, bl, pr) ==
    /\ NamesOf(cs) = {n \in DOMAIN bl \cap DOMAIN pr : bl[n] > 0}
    /\ \A i \in 1..Len(cs), j \in 1..Len(cs) :
            i < j => MethodIndex(cs[i].name) < MethodIndex(cs[j].name)
    /\ \A i \in 1..Len(cs) :
            /\ cs[i].baseline_value = bl[cs[i].name]
            /\ cs[i].pr_value = pr[cs[i].name]

\* the ratio policy: both lists are fixed by the pairs, the rows follow
\* them and the exit code follows their verdicts
RatioOrderIndependent ==
    Compared =>
        /\ FixedByPairs(throughput_comparisons, baseline_throughput, pr_throughput)
        /\ FixedByPairs(allocation_comparisons, baseline_allocations, pr_allocations)
        /\ \A i \in 1..Len(throughput_comparisons) :
                RowsOf("throughput")[i].name = throughput_comparisons[i].name
        /\ \A i \in 1..Len(allocation_comparisons) :
                RowsOf("allocation")[i].name = allocation_comparisons[i].name

\* C21: the sequence of Comparisons produced and reported by the comparator,
\* and the pass/fail result, depend only on the set of (name, value) pairs of
\* the current and reference sets and on the threshold: the same pairs
\* inserted or enumerated in a different order yield identical sequences,
\* under the ratio policy (compare_metrics) and under the delta policy
\* (compare_results and its regression listing).
C21_OrderIndependent ==
    /\ RatioOrderIndependent
    /\ DeltaReported =>
        \A other \in Reorderings(results) :
            /\ DeltaOutcome(other).comparisons = comparisons
            /\ DeltaOutcome(other).table = RowsOf("benchmark")
            /\ DeltaOutcome(other).listing = RowsOf("regressions")
            /\ DeltaOutcome(other).exit_code = exit_code

\* C21 restricted to what is sorted before it is reported: the comparison
\* table and the exit code of the delta policy, and the ratio policy, where
\* it holds
C21_TableOrderIndependent ==
    /\ RatioOrderIndependent
    /\ DeltaReported =>
        \A other \in Reorderings(results) :
            /\ DeltaOutcome(other).table = RowsOf("benchmark")
            /\ DeltaOutcome(other).exit_code = exit_code
            /\ {DeltaOutcome(other).comparisons[i] :
                    i \in 1..Len(DeltaOutcome(other).comparisons)}
                = {comparisons[i] : i \in 1..Len(comparisons)}

\* a delta run listed two regressions in descending name order: files
\* abies-keyed_02_replace1k.json and abies_01_run1k.json
C21_ListedInInsertionOrder ==
    /\ DeltaReported
    /\ Len(RowsOf("regressions")) = 2
    /\ RowsOf("regressions")[1].name = <<"02", "replace1k">>
    /\ RowsOf("regressions")[2].name = <<"01", "run1k">>
    /\ RowsOf("benchmark")[1].name = <<"01", "run1k">>

\* a delta run listed the same two regressions in ascending name order:
\* files abies_01_run1k.json and abies_02_replace1k.json
C21_ListedInNameOrder ==
    /\ DeltaReported
    /\ Len(RowsOf("regressions")) = 2
    /\ RowsOf("regressions")[1].name = <<"01", "run1k">>
    /\ RowsOf("regressions")[2].name = <<"02", "replace1k">>

(***************************************************************************)
(* Round trip of the baseline through its file (SpecDelta).                *)
(***************************************************************************)
\* the mapping name -> median of the results of the run
MediansOf(rs) ==
    [n \in NamesOf(rs) |->
        (CHOOSE r \in {rs[i] : i \in 1..Len(rs)} : r.name = n).median]

\* the comparison run found in the baseline exactly the medians of its own
\* results, all positive: the run that follows an update run over the same
\* results
ComparedWithOwnMedians ==
    /\ DeltaCompared
    /\ baseline = MediansOf(results)
    /\ \A k \in 1..Len(results) : RLess(Num(0), results[k].median)

\* C24: baseline round trip: after an update-baseline run over results R,
\* load_baseline returns exactly the mapping name -> R[name].median, for
\* every name of R and no other name; a comparison run that finds this
\* mapping of its own results (all medians positive) reports diffPercent 0
\* for every name, no regression and no improvement, for every threshold
\* >= 0, and ends with exit code 0.
C24_BaselineRoundTrip ==
    /\ UpdateRunCompleted =>
            load_baseline(baseline_file) = [kind |-> "ok", value |-> MediansOf(results)]
    /\ ComparedWithOwnMedians =>
        /\ traceback = None
        /\ exit_code = 0
        /\ NamesOf(comparisons) = NamesOf(results)
        /\ \A i \in 1..Len(comparisons) :
                /\ RIsZero(comparisons[i].diff_percent)
                /\ ~comparisons[i].is_regression
                /\ ~comparisons[i].is_improvement
        /\ RowsOf("regressions") = << >>

\* C24 witness: a comparison run with threshold 0 compared two names
\* against a stored baseline that holds exactly their medians (which only
\* an update run over the same results can have written).
C24_Witness ==
    /\ ComparedWithOwnMedians
    /\ StoredMap = MediansOf(results)
    /\ args.threshold = 0
    /\ Len(comparisons) = 2
    /\ exit_code = 0

\* an update run over two names has ended and its file reads back
C24_UpdateReadBack ==
    /\ UpdateRunCompleted
    /\ Len(results) = 2
    /\ StoredMap = MediansOf(results)

(***************************************************************************)
(* convert-e2e-results.py: convert_to_benchmark_format.                    *)
(***************************************************************************)
MemoryPrefixes == {"21", "22", "23", "24", "25", "26"}

\* name.startswith(("21_", "22_", "23_", "24_", "25_", "26_")), on a name
\* split at "_"
is_memory_benchmark(name) == Len(name) >= 2 /\ Head(name) \in MemoryPrefixes

\* the dict benchmark_descriptions, as (name, description) pairs
benchmark_descriptions ==
    {<< <<"01", "run1k">>, "create 1000 rows" >>,
     << <<"02", "replace1k">>, "replace all 1000 rows" >>,
     << <<"03", "update10th1k">>, "update every 10th row" >>,
     << <<"04", "select1k">>, "select row" >>,
     << <<"05", "swap1k">>, "swap two rows" >>,
     << <<"06", "remove-one-1k">>, "remove one row" >>,
     << <<"07", "create10k">>, "create 10,000 rows" >>,
     << <<"08", "create1k-after1k", "x2">>, "append 1000 rows" >>,
     << <<"09", "clear1k">>, "clear all rows" >>,
     << <<"21", "ready-memory">>, "ready memory" >>,
     << <<"22", "run-memory">>, "run memory" >>,
     << <<"23", "update5-memory">>, "update5 memory" >>,
     << <<"24", "replace5-memory">>, "replace5 memory" >>,
     << <<"25", "clear-memory">>, "clear memory" >>,
     << <<"26", "run-clear-memory">>, "run-clear memory" >>,
     << <<"31", "startup-ci">>, "startup time" >>,
     << <<"32", "startup-bt">>, "script bootup time" >>,
     << <<"33", "startup-mainthreadcost">>, "main thread work cost" >>,
     << <<"34", "startup-totalbytes">>, "total byte weight" >>}

\* benchmark_descriptions.get(name, "")
description_of(name) ==
    IF \E p \in benchmark_descriptions : p[1] = name
    THEN (CHOOSE p \in benchmark_descriptions : p[1] = name)[2]
    ELSE ""

\* f"{name} ({description})" if description else name
display_name(name) ==
    IF description_of(name) # ""
    THEN name \o <<" (", description_of(name), ")">>
    ELSE name

\* one element of the output list; extra carries the mean (printed to one
\* decimal), the unit and the number of samples
benchmark_entry(result, unit) ==
    [name |-> display_name(result.name),
     unit |-> unit,
     value |-> result.median,
     extra |-> [mean |-> result.mean, unit |-> unit,
                samples |-> Len(result.values)]]

convert_to_benchmark_format(rs, memory_only) ==
    LET unit == IF memory_only THEN "MB" ELSE "ms"
        kept == SelectSeq(rs, LAMBDA r : is_memory_benchmark(r.name) = memory_only)
    IN  [i \in 1..Len(kept) |-> benchmark_entry(kept[i], unit)]

(***************************************************************************)
(* convert-e2e-results.py: main (SpecConvert).                             *)
(***************************************************************************)
\* the files abies*.json of the results directory, in sorted path order
ConvertStemOrder ==
    << <<"abies-keyed", "01", "run1k">>,
       <<"abies", "01", "run1k">>,
       <<"abies", "21", "ready-memory">>,
       <<"abies", "31", "startup-ci">>,
       <<"abies", "99", "custom">> >>

ConvertStems == {ConvertStemOrder[i] : i \in 1..Len(ConvertStemOrder)}

\* find_result_files: sorted(results_dir.glob(pattern))
convert_find_result_files(dir) == SelectSeq(ConvertStemOrder, LAMBDA st : st \in dir)

\* the documents the result files of a conversion run may hold
ConvertDocuments ==
    {Flat(<<3>>), Keyed(ListEntry(<<4>>), Absent), Malformed, Scalar(TRUE)}

\* --output-memory given or not
ConvertArgs == [output_memory : BOOLEAN]

\* lines 205-209: the directory is listed; no file -> sys.exit(1)
ConvertFindResultFiles ==
    /\ script = "convert-e2e-results"
    /\ pc = "start"
    /\ \E dir \in SUBSET ConvertStems :
        /\ result_files' = convert_find_result_files(dir)
        /\ IF dir = {}
           THEN Exit(1)
           ELSE pc' = "parse" /\ UNCHANGED <<exit_code, traceback>>
    /\ UNCHANGED <<script, stdout, results, args, documents, baseline_file,
                   baseline, comparisons, e2e_vars, norm_vars, ratio_vars,
                   tool_vars>>

\* lines 214-218: one iteration of the parse loop; a record is appended to
\* the list of results
ConvertParseNextFile ==
    /\ script = "convert-e2e-results"
    /\ pc = "parse"
    /\ Len(documents) < Len(result_files)
    /\ \E doc \in ConvertDocuments :
        LET result == convert_parse_result_file(result_files[Len(documents) + 1], doc)
        IN  /\ documents' = Append(documents, doc)
            /\ IF result.kind = "raise"
               THEN Crash(result.exc) /\ UNCHANGED results
               ELSE /\ results' = IF result.kind = "result"
                                  THEN Append(results, result) ELSE results
                    /\ UNCHANGED <<pc, exit_code, traceback>>
    /\ UNCHANGED <<script, stdout, args, result_files, baseline_file, baseline,
                   comparisons, e2e_vars, norm_vars, ratio_vars, tool_vars>>

\* the benchmark names of the conversion run, in the order of their strings
ConvertNameOrder ==
    << <<"01", "run1k">>, <<"21", "ready-memory">>, <<"31", "startup-ci">>,
       <<"99", "custom">> >>

\* lines 247-253: the summary table, one row per result, sorted by name
summary_rows(rs) ==
    LET srt == sorted_by_name(rs, ConvertNameOrder)
    IN  [i \in 1..Len(srt) |->
            [table |-> "summary",
             name |-> srt[i].name,
             unit |-> IF is_memory_benchmark(srt[i].name) THEN "MB" ELSE "ms"]]

\* lines 220-253: no result -> sys.exit(1); else the CPU output is written,
\* the memory output when --output-memory is given and a memory benchmark
\* was found, and the summary is printed
ConvertAndWrite ==
    /\ script = "convert-e2e-results"
    /\ pc = "parse"
    /\ Len(documents) = Len(result_files)
    /\ IF results = << >>
       THEN Exit(1) /\ UNCHANGED <<cpu_data, memory_data, stdout>>
       ELSE /\ cpu_data' = [written |-> TRUE,
                            rows |-> convert_to_benchmark_format(results, FALSE)]
            /\ memory_data' =
                 IF /\ args.output_memory
                    /\ convert_to_benchmark_format(results, TRUE) # << >>
                 THEN [written |-> TRUE,
                       rows |-> convert_to_benchmark_format(results, TRUE)]
                 ELSE memory_data
            /\ stdout' = summary_rows(results)
            /\ Exit(0)
    /\ UNCHANGED <<script, results, args, delta_vars, ratio_vars, e2e_vars,
                   norm_vars, fix_vars>>

InitConvert ==
    /\ script = "convert-e2e-results"
    /\ pc = "start"
    /\ exit_code = NoExit
    /\ traceback = None
    /\ stdout = << >>
    /\ args \in ConvertArgs
    /\ results = << >>
    /\ IdleDelta
    /\ IdleRatio
    /\ IdleE2E
    /\ IdleNorm
    /\ IdleTools

NextConvert == ConvertFindResultFiles \/ ConvertParseNextFile \/ ConvertAndWrite

SpecConvert == InitConvert /\ [][NextConvert]_vars

(***************************************************************************)
(* Claims about the conversion script (SpecConvert).                       *)
(***************************************************************************)
CpuPrefixes == {"01", "02", "03", "04", "05", "06", "07", "08", "09"}

\* the conversion run wrote its output
Converted == script = "convert-e2e-results" /\ pc = "exit" /\ cpu_data.written

\* C22: convert_to_benchmark_format partitions the results by kind: with
\* memory_only=False the output contains only CPU benchmarks (names 01 to
\* 09) with unit ms, and with memory_only=True only memory benchmarks
\* (names 21 to 26) with unit MB; no result of another kind (such as the
\* startup benchmarks 31 to 34) appears in either output.
C22_PartitionByKind ==
    Converted =>
        /\ \A i \in 1..Len(cpu_data.rows) :
                /\ cpu_data.rows[i].unit = "ms"
                /\ Head(cpu_data.rows[i].name) \in CpuPrefixes
        /\ \A i \in 1..Len(memory_data.rows) :
                /\ memory_data.rows[i].unit = "MB"
                /\ Head(memory_data.rows[i].name) \in MemoryPrefixes

\* C22 with every benchmark that is not a memory benchmark counted into the
\* first output, where it holds: the memory output holds the memory
\* benchmarks only, with unit MB, and the other output every other result,
\* with unit ms
C22_MemoryOrNot ==
    Converted =>
        /\ \A i \in 1..Len(cpu_data.rows) :
                /\ cpu_data.rows[i].unit = "ms"
                /\ Head(cpu_data.rows[i].name) \notin MemoryPrefixes
        /\ \A i \in 1..Len(memory_data.rows) :
                /\ memory_data.rows[i].unit = "MB"
                /\ Head(memory_data.rows[i].name) \in MemoryPrefixes
        /\ Len(cpu_data.rows) =
                Cardinality({k \in 1..Len(results) :
                                Head(results[k].name) \notin MemoryPrefixes})
        /\ args.output_memory =>
                Len(memory_data.rows) =
                    Cardinality({k \in 1..Len(results) :
                                    Head(results[k].name) \in MemoryPrefixes})

\* a run wrote a CPU, a memory and a startup result: the startup result is
\* in the first output, with unit ms
C22_StartupInCpuOutput ==
    /\ Converted
    /\ memory_data.written
    /\ \E i \in 1..Len(cpu_data.rows) : Head(cpu_data.rows[i].name) = "01"
    /\ \E i \in 1..Len(cpu_data.rows) :
            /\ Head(cpu_data.rows[i].name) = "31"
            /\ cpu_data.rows[i].unit = "ms"

(***************************************************************************)
(* fix-benchmark-data.py: fix_benchmark_data and main (SpecFix).  The      *)
(* progress messages it prints are left out.                               *)
(***************************************************************************)
\* name_mapping, in the order of its items
name_mapping ==
    << <<"Virtual DOM Benchmarks", "Rendering Engine Throughput">>,
       <<"Virtual DOM Allocations", "Rendering Engine Allocations">> >>

\* entry.get("commit", {}).get("id", ""): "" for an entry without commit id
NoCommitId == ""

\* one entry of a chart-set list: its commit id, its date, and the rest of
\* its content (which run wrote it)
Entry(id, date, run) == [commit |-> id, date |-> date, run |-> run]

\* lines 51-58: the entries of old_entries are appended to the list unless
\* they have no commit id or their id is among existing_ids
RECURSIVE append_new(_, _, _)
append_new(list, existing_ids, old_entries) ==
    IF old_entries = << >> THEN list
    ELSE LET entry == Head(old_entries)
         IN  IF entry.commit # NoCommitId /\ entry.commit \notin existing_ids
             THEN append_new(Append(list, entry),
                             existing_ids \cup {entry.commit}, Tail(old_entries))
             ELSE append_new(list, existing_ids, Tail(old_entries))

\* lines 43-61: one iteration of the loop over name_mapping
merge_old_name(es, old_name, new_name) ==
    IF old_name \notin DOMAIN es THEN es
    ELSE LET target == IF new_name \in DOMAIN es THEN es[new_name] ELSE << >>
             existing_ids == {target[i].commit : i \in 1..Len(target)}
                                \ {NoCommitId}
         IN  [n \in (DOMAIN es \ {old_name}) \cup {new_name} |->
                IF n = new_name
                THEN append_new(target, existing_ids, es[old_name])
                ELSE es[n]]

\* list.sort(key=lambda e: e.get("date", 0)): a stable sort by date
RECURSIVE sort_by_date(_)
sort_by_date(list) ==
    IF list = << >> THEN << >>
    ELSE LET front == sort_by_date(SubSeq(list, 1, Len(list) - 1))
             last == list[Len(list)]
         IN  SelectSeq(front, LAMBDA e : e.date <= last.date)
                \o <<last>>
                \o SelectSeq(front, LAMBDA e : e.date > last.date)

\* the input data.js: not JSON, or a document with its entries
DataMalformed == [kind |-> "malformed", entries |-> [n \in {} |-> << >>]]
DataJson(es) == [kind |-> "json", entries |-> es]

CommitIds == {"a", "b", NoCommitId}
Dates == {1, 2}

\* the lists of the first pair of chart sets
OldEntries == {Entry(id, d, "old") : id \in CommitIds, d \in Dates}
NewEntries == {Entry(id, d, "new") : id \in {"a", NoCommitId}, d \in Dates}

\* the lists of the second pair, and of a chart set that is not renamed
OldAllocations == { <<Entry("a", 2, "old"), Entry("b", 1, "old")>> }
NewAllocations == { <<Entry("a", 2, "new")>> }

\* a dict with the keys whose list is given (None: the key is absent)
ChartSets(old1, new1, old2, new2) ==
    LET given == {p \in { <<name_mapping[1][1], old1>>, <<name_mapping[1][2], new1>>,
                         <<name_mapping[2][1], old2>>, <<name_mapping[2][2], new2>> } :
                    p[2].present}
    IN  [n \in {p[1] : p \in given} |-> (CHOOSE p \in given : p[1] = n)[2].list]

Present(list) == [present |-> TRUE, list |-> list]
AbsentKey == [present |-> FALSE, list |-> << >>]

DataFiles ==
    {DataMalformed}
    \cup {DataJson(ChartSets(o1, n1, o2, n2)) :
            o1 \in {AbsentKey} \cup {Present(l) : l \in SeqsUpTo(OldEntries, MaxEntries)},
            n1 \in {AbsentKey} \cup {Present(l) : l \in SeqsUpTo(NewEntries, MaxEntries)},
            o2 \in {AbsentKey} \cup {Present(l) : l \in OldAllocations},
            n2 \in {AbsentKey} \cup {Present(l) : l \in NewAllocations}}

\* len(sys.argv) >= 3
FixArgs == [paths_given : BOOLEAN]

\* main and lines 23-33: usage error -> sys.exit(1); the file is read and
\* json.loads raises on a malformed one; entries = data.get("entries", {})
FixRead ==
    /\ script = "fix-benchmark-data"
    /\ pc = "start"
    /\ IF ~args.paths_given
       THEN Exit(1) /\ UNCHANGED entries
       ELSE IF data.kind = "malformed"
       THEN Crash("JSONDecodeError") /\ UNCHANGED entries
       ELSE /\ entries' = data.entries
            /\ pc' = "merge"
            /\ UNCHANGED <<exit_code, traceback>>
    /\ UNCHANGED <<script, stdout, results, args, delta_vars, ratio_vars,
                   e2e_vars, norm_vars, convert_vars, data, fixed>>

\* lines 42-63: the iteration of the loop for the next item of name_mapping
\* (documents counts the items done)
MergeOldName ==
    /\ script = "fix-benchmark-data"
    /\ pc = "merge"
    /\ Len(documents) < Len(name_mapping)
    /\ LET item == name_mapping[Len(documents) + 1]
       IN  /\ entries' = merge_old_name(entries, item[1], item[2])
           /\ documents' = Append(documents, item[1])
    /\ UNCHANGED <<script, pc, exit_code, traceback, stdout, results, args,
                   result_files, baseline_file, baseline, comparisons,
                   ratio_vars, e2e_vars, norm_vars, convert_vars, data, fixed>>

\* lines 66-77: every list is sorted by date and the output is written
SortAndWrite ==
    /\ script = "fix-benchmark-data"
    /\ pc = "merge"
    /\ Len(documents) = Len(name_mapping)
    /\ entries' = [n \in DOMAIN entries |-> sort_by_date(entries[n])]
    /\ fixed' = [written |-> TRUE, entries |-> entries']
    /\ Exit(0)
    /\ UNCHANGED <<script, stdout, results, args, delta_vars, ratio_vars,
                   e2e_vars, norm_vars, convert_vars, data>>

InitFix ==
    /\ script = "fix-benchmark-data"
    /\ pc = "start"
    /\ exit_code = NoExit
    /\ traceback = None
    /\ stdout = << >>
    /\ args \in FixArgs
    /\ results = << >>
    /\ data \in (IF args.paths_given THEN DataFiles ELSE {NoData})
    /\ entries = [n \in {} |-> << >>]
    /\ fixed = [written |-> FALSE, entries |-> [n \in {} |-> << >>]]
    /\ IdleDelta
    /\ IdleRatio
    /\ IdleE2E
    /\ IdleNorm
    /\ IdleConvert

NextFix == FixRead \/ MergeOldName \/ SortAndWrite

SpecFix == InitFix /\ [][NextFix]_vars

(***************************************************************************)
(* Claims about the chart-set merge (SpecFix).                             *)
(***************************************************************************)
\* fix_benchmark_data has written its output
FixDone == script = "fix-benchmark-data" /\ pc = "exit" /\ fixed.written

\* the list of a chart set ([] when the dict has no such key)
ListOf(es, n) == IF n \in DOMAIN es THEN es[n] ELSE << >>

\* how many entries of the list carry the commit id
CountId(list, id) == Cardinality({i \in 1..Len(list) : list[i].commit = id})

SortedByDate(list) ==
    \A i \in 1..Len(list), j \in 1..Len(list) :
        i < j => list[i].date <= list[j].date

\* the commit id of the i-th old entry was already present in the list of
\* the new name when the entry was reached: in the list as read, or put
\* there by an earlier old entry
AlreadyPresent(old, before, i) ==
    /\ old[i].commit # NoCommitId
    /\ \/ CountId(before, old[i].commit) > 0
       \/ \E j \in 1..(i - 1) : old[j].commit = old[i].commit

\* both old names are gone and every list is sorted by date
RenamedAndSorted ==
    /\ \A k \in 1..Len(name_mapping) :
            name_mapping[k][1] \notin DOMAIN fixed.entries
    /\ \A n \in DOMAIN fixed.entries : SortedByDate(fixed.entries[n])

\* C25: after fix_benchmark_data, neither old chart-set name remains in
\* entries, each chart-set list is sorted ascending by date, and every entry
\* that was stored under an old name is present in the list of the
\* corresponding new name, except an entry whose commit id was already
\* present in that list, which is then present once.
C25_OldEntriesMerged ==
    FixDone =>
        /\ RenamedAndSorted
        /\ \A k \in 1..Len(name_mapping) :
            LET old == ListOf(data.entries, name_mapping[k][1])
                before == ListOf(data.entries, name_mapping[k][2])
                after == ListOf(fixed.entries, name_mapping[k][2])
            IN  \A i \in 1..Len(old) :
                    IF AlreadyPresent(old, before, i)
                    THEN CountId(after, old[i].commit) = 1
                    ELSE \E j \in 1..Len(after) : after[j] = old[i]

\* C25 for the old entries that have a commit id, with an id that the list
\* of the new name held several times kept as often, where it holds; the
\* old entries without commit id are not in the output, and no entry of the
\* list of the new name is lost
C25_IdentifiedEntriesMerged ==
    FixDone =>
        /\ RenamedAndSorted
        /\ \A k \in 1..Len(name_mapping) :
            LET old == ListOf(data.entries, name_mapping[k][1])
                before == ListOf(data.entries, name_mapping[k][2])
                after == ListOf(fixed.entries, name_mapping[k][2])
            IN  /\ \A i \in 1..Len(old) :
                    IF old[i].commit = NoCommitId
                    THEN \A j \in 1..Len(after) : after[j] # old[i]
                    ELSE IF AlreadyPresent(old, before, i)
                    THEN CountId(after, old[i].commit) =
                            (IF CountId(before, old[i].commit) > 0
                             THEN CountId(before, old[i].commit) ELSE 1)
                    ELSE \E j \in 1..Len(after) : after[j] = old[i]
                /\ \A i \in 1..Len(before) :
                    \E j \in 1..Len(after) : after[j] = before[i]
                /\ Len(after) = Len(before)
                        + Cardinality({i \in 1..Len(old) :
                            /\ old[i].commit # NoCommitId
                            /\ ~AlreadyPresent(old, before, i)})

\* an old entry without commit id was merged away: it is in no list of the
\* output, next to an old entry that was moved behind a newer one by date
C25_EntryWithoutIdLost ==
    /\ FixDone
    /\ LET old == ListOf(data.entries, name_mapping[1][1])
           after == ListOf(fixed.entries, name_mapping[1][2])
       IN  /\ Len(old) = 2
           /\ old[1].commit = NoCommitId
           /\ old[2].commit = "a"
           /\ \A j \in 1..Len(after) : after[j] # old[1]
           /\ Len(after) = 2
           /\ after[1] = old[2]

=============================================================================
